---- MODULE Spec2Model ----
(***************************************************************************)
(* voiceprompt-pro: the conversation state machine (lib/conversation.ts)   *)
(* and the three request boundaries (api/converse, api/structure,          *)
(* api/format) with their hosted-model adapter and rule-based fallback.    *)
(*                                                                         *)
(* A text is a sequence of strings.  Text typed or spoken by the user is   *)
(* held character by character, so that split(/\s+/), trim(), includes()  *)
(* and join(" ") are computed and not assumed.  A line the program or the  *)
(* hosted model produces (a question, a readiness line) is held as one     *)
(* string, Lit(...): the code only compares it for equality.               *)
(* A ChatMessage is [role, content]; id and timestamp come from            *)
(* Date.now() / Math.random() and are read by no decision.                 *)
(***************************************************************************)
EXTENDS Integers, Sequences, FiniteSets, TLC

VARIABLES
    state,        \* ConversationManager.state (conversation.ts:94)
    lastOp,       \* the call made last, with its arguments and isComplete as it was before
    lastResult,   \* what that call returned
    request,      \* the request body the boundary route is handling
    pc,           \* where the route handler is: "idle", "awaitAdapter", "done"
    settled,      \* how the hosted-model call of this request settled
    response,     \* the NextResponse the handler returned for this request
    committed,    \* which computations produced a returned response, in order
    call,         \* the engine function being called, with its arguments
    returned,     \* what that function returned
    results,      \* what an observer keeps of the structurePrompt calls so far
    speech,       \* the SpeechManager and its recognizer (part_004:59-161)
    wake,         \* the WakeWordDetector and its recognizers (wake-word.ts)
    page          \* the refs and state of the Home component (page.tsx:24-50)

cmVars == <<state, lastOp, lastResult>>
routeVars == <<request, pc, settled, response, committed>>
engineVars == <<call, returned, results>>
uiVars == <<speech, wake, page>>
vars == <<state, lastOp, lastResult, request, pc, settled, response, committed,
          call, returned, results, speech, wake, page>>

(***************************************************************************)
(* Bounds of the model                                                     *)
(***************************************************************************)
\* longest message sequence a session is followed to
MaxMessages == 6
\* longest conversationHistory a request carries
MaxHistory == 4

(***************************************************************************)
(* Text                                                                    *)
(***************************************************************************)
\* a line held as one string
Lit(line) == <<line>>

\* the characters /\s/ matches, of those the inputs use
IsWhitespace(c) == c \in {" ", "\t", "\n"}

\* text.split(/\s+/).length: one more than the number of maximal whitespace runs
SplitWhitespaceLength(text) ==
    1 + Cardinality({i \in 1..Len(text) :
                        /\ IsWhitespace(text[i])
                        /\ (i = 1 \/ ~IsWhitespace(text[i - 1]))})

RECURSIVE TrimStart(_)
TrimStart(text) ==
    IF text # <<>> /\ IsWhitespace(Head(text)) THEN TrimStart(Tail(text)) ELSE text

RECURSIVE TrimEnd(_)
TrimEnd(text) ==
    IF text # <<>> /\ IsWhitespace(text[Len(text)])
    THEN TrimEnd(SubSeq(text, 1, Len(text) - 1))
    ELSE text

\* String.prototype.trim
Trim(text) == TrimEnd(TrimStart(text))

UpperCase == <<"A", "B", "C", "D", "E", "F", "G", "H", "I", "J", "K", "L", "M",
               "N", "O", "P", "Q", "R", "S", "T", "U", "V", "W", "X", "Y", "Z">>
LowerCase == <<"a", "b", "c", "d", "e", "f", "g", "h", "i", "j", "k", "l", "m",
               "n", "o", "p", "q", "r", "s", "t", "u", "v", "w", "x", "y", "z">>

\* String.prototype.toLowerCase
ToLowerCase(text) ==
    [i \in 1..Len(text) |->
        IF \E k \in 1..26 : UpperCase[k] = text[i]
        THEN LowerCase[CHOOSE k \in 1..26 : UpperCase[k] = text[i]]
        ELSE text[i]]

\* String.prototype.includes
Includes(text, part) ==
    \E i \in 1..(Len(text) - Len(part) + 1) :
        SubSeq(text, i, i + Len(part) - 1) = part

\* Array.prototype.join
RECURSIVE Join(_, _)
Join(texts, sep) ==
    IF texts = <<>> THEN <<>>
    ELSE IF Len(texts) = 1 THEN texts[1]
         ELSE texts[1] \o sep \o Join(Tail(texts), sep)

\* n one-letter words separated by single blanks
Words(n) == [i \in 1..(2 * n - 1) |-> IF i % 2 = 1 THEN "a" ELSE " "]

Hi == <<"H", "i">>
Help == <<"H", "e", "l", "p">>
WriteCode == <<"W", "r", "i", "t", "e", " ", "c", "o", "d", "e">>
\* eight words, the first two separated by a run of two blanks
EightWords == <<"f", "i", "x", " ", " ">> \o Words(7)

(***************************************************************************)
(* lib/conversation.ts                                                     *)
(***************************************************************************)
\* null, as a text no message holds
Null == Lit("null")

CLARIFYING_TEMPLATES ==
    [x \in {"Code Generation", "Writing & Content", "Analysis & Research",
            "Problem Solving", "General"} |->
        CASE x = "Code Generation" ->
                <<Lit("What programming language or framework would you like me to use?"),
                  Lit("Should I include error handling and edge cases?"),
                  Lit("Do you need tests included with the code?"),
                  Lit("Any specific architecture pattern you'd like (MVC, microservices, etc.)?")>>
          [] x = "Writing & Content" ->
                <<Lit("What tone should the writing be - formal, casual, or conversational?"),
                  Lit("Who is the target audience?"),
                  Lit("How long should the content be?"),
                  Lit("Should I include any specific sections or structure?")>>
          [] x = "Analysis & Research" ->
                <<Lit("What specific aspects should I focus on?"),
                  Lit("Do you need data sources or citations?"),
                  Lit("Should I compare multiple options or focus on one?"),
                  Lit("What level of detail do you need - overview or deep dive?")>>
          [] x = "Problem Solving" ->
                <<Lit("Can you describe what's happening vs what you expected?"),
                  Lit("What have you already tried?"),
                  Lit("Are there any error messages?"),
                  Lit("What environment or platform are you using?")>>
          [] x = "General" ->
                <<Lit("Could you tell me a bit more about what you're looking for?"),
                  Lit("What's the main goal you want to achieve?"),
                  Lit("Are there any specific requirements or constraints?")>>]

ReadyResponse ==
    Lit("Perfect! I have enough information. Let me structure that into an optimized prompt for you.")

ClosingLine == Lit("Got it! Let me structure that into a prompt for you.")

getWelcomeMessage ==
    Lit("I'm listening! Tell me what prompt you'd like me to create, in any language.")

UserMessage(content) == [role |-> "user", content |-> content]
AssistantMessage(content) == [role |-> "assistant", content |-> content]

\* messages.filter(m => m.role === role).map(m => m.content), order kept
RECURSIVE ContentsOf(_, _)
ContentsOf(messages, role) ==
    IF messages = <<>> THEN <<>>
    ELSE IF Head(messages).role = role
         THEN <<Head(messages).content>> \o ContentsOf(Tail(messages), role)
         ELSE ContentsOf(Tail(messages), role)

RECURSIVE SumSplitLengths(_)
SumSplitLengths(texts) ==
    IF texts = <<>> THEN 0
    ELSE SplitWhitespaceLength(Head(texts)) + SumSplitLengths(Tail(texts))

\* counts the words of the latest user turn only
isIntentComplete_LatestTurnOnly(messages) ==
    LET texts == ContentsOf(messages, "user")
        totalWords == IF texts = <<>> THEN 0
                      ELSE SplitWhitespaceLength(texts[Len(texts)])
    IN  \/ totalWords > 15
        \/ Len(messages) >= 4

\* the turn ceiling off by one
isIntentComplete_CeilingOffByOne(messages) ==
    LET totalWords == SumSplitLengths(ContentsOf(messages, "user"))
    IN  \/ totalWords > 15
        \/ Len(messages) > 4

\* the turn ceiling left out
isIntentComplete_WordsOnly(messages) ==
    SumSplitLengths(ContentsOf(messages, "user")) > 15

isIntentComplete(messages) ==
    LET totalWords == SumSplitLengths(ContentsOf(messages, "user"))
    IN  \/ totalWords > 15
        \/ Len(messages) >= 4

Range(seq) == {seq[i] : i \in 1..Len(seq)}

\* questions.filter(q => !askedQuestions.includes(q))
RECURSIVE Unasked(_, _)
Unasked(questions, askedQuestions) ==
    IF questions = <<>> THEN <<>>
    ELSE IF Head(questions) \in askedQuestions
         THEN Unasked(Tail(questions), askedQuestions)
         ELSE <<Head(questions)>> \o Unasked(Tail(questions), askedQuestions)

pickClarifyingQuestion_NoSkip(intent, existingMessages) ==
    LET questions == IF intent \in DOMAIN CLARIFYING_TEMPLATES
                     THEN CLARIFYING_TEMPLATES[intent]
                     ELSE CLARIFYING_TEMPLATES["General"]
    IN  questions[1]

pickClarifyingQuestion(intent, existingMessages) ==
    LET questions == IF intent \in DOMAIN CLARIFYING_TEMPLATES
                     THEN CLARIFYING_TEMPLATES[intent]
                     ELSE CLARIFYING_TEMPLATES["General"]
        askedQuestions == Range(ContentsOf(existingMessages, "assistant"))
        unasked == Unasked(questions, askedQuestions)
    IN  IF Len(unasked) > 0 THEN unasked[1] ELSE ClosingLine

\* constructor, and the object reset() assigns
FreshState ==
    [messages |-> <<>>, rawTranscripts |-> <<>>, combinedIntent |-> "",
     isComplete |-> FALSE, clarifyingQuestion |-> Null]

addUserMessage_NoTranscript(st, content) ==
    [st EXCEPT !.messages = Append(@, UserMessage(content))]

addUserMessage(st, content) ==
    [st EXCEPT !.messages = Append(@, UserMessage(content)),
               !.rawTranscripts = Append(@, content)]

addAssistantMessage(st, content) ==
    [st EXCEPT !.messages = Append(@, AssistantMessage(content))]

\* the state processUserInput leaves and the value it returns
processUserInput_SilentReady(st, transcript, detectedIntent) ==
    LET s1 == [addUserMessage(st, transcript) EXCEPT !.combinedIntent = detectedIntent]
        complete == isIntentComplete(s1.messages)
        s2 == [s1 EXCEPT !.isComplete = complete]
        question == pickClarifyingQuestion(detectedIntent, s2.messages)
    IN  IF complete
        THEN [state |-> s2,
              result |-> [response |-> ReadyResponse, shouldStructure |-> TRUE]]
        ELSE [state |-> [addAssistantMessage(s2, question)
                            EXCEPT !.clarifyingQuestion = question],
              result |-> [response |-> question, shouldStructure |-> FALSE]]

processUserInput(st, transcript, detectedIntent) ==
    LET s1 == [addUserMessage(st, transcript) EXCEPT !.combinedIntent = detectedIntent]
        complete == isIntentComplete(s1.messages)
        s2 == [s1 EXCEPT !.isComplete = complete]
        question == pickClarifyingQuestion(detectedIntent, s2.messages)
    IN  IF complete
        THEN [state |-> addAssistantMessage(s2, ReadyResponse),
              result |-> [response |-> ReadyResponse, shouldStructure |-> TRUE]]
        ELSE [state |-> [addAssistantMessage(s2, question)
                            EXCEPT !.clarifyingQuestion = question],
              result |-> [response |-> question, shouldStructure |-> FALSE]]

reset_KeepMessages(st) ==
    [st EXCEPT !.rawTranscripts = <<>>, !.combinedIntent = "",
               !.isComplete = FALSE, !.clarifyingQuestion = Null]

reset(st) == FreshState

(***************************************************************************)
(* app/api/converse/route.ts: the rule-based turn-processing boundary      *)
(***************************************************************************)
ConverseRoute_CLARIFYING_TEMPLATES ==
    [x \in {"Code Generation", "Writing & Content", "Analysis & Research",
            "Problem Solving", "General"} |->
        CASE x = "Code Generation" ->
                <<Lit("Got it! What programming language or framework would you like me to use?"),
                  Lit("Should I include error handling, tests, and edge cases?"),
                  Lit("Any specific architecture pattern you'd like (MVC, microservices, etc.)?")>>
          [] x = "Writing & Content" ->
                <<Lit("Sure! What tone should the writing be - formal, casual, or conversational?"),
                  Lit("Who is the target audience for this content?"),
                  Lit("How long should the content be?")>>
          [] x = "Analysis & Research" ->
                <<Lit("Interesting! What specific aspects should I focus on?"),
                  Lit("Should I compare multiple options or focus on one?"),
                  Lit("What level of detail do you need - overview or deep dive?")>>
          [] x = "Problem Solving" ->
                <<Lit("I see! Can you describe what's happening vs what you expected?"),
                  Lit("What have you already tried so far?"),
                  Lit("Are there any error messages or logs?")>>
          [] x = "General" ->
                <<Lit("Could you tell me a bit more about what you're looking for?"),
                  Lit("What's the main goal you want to achieve?"),
                  Lit("Are there any specific requirements or constraints I should know about?")>>]

ConverseRoute_INTENT_PATTERNS ==
    <<[intent |-> "Code Generation",
        kws |-> <<
            <<"c", "o", "d", "e">>,
            <<"p", "r", "o", "g", "r", "a", "m">>,
            <<"a", "p", "i">>,
            <<"a", "p", "p">>,
            <<"b", "u", "i", "l", "d">>,
            <<"c", "r", "e", "a", "t", "e">>,
            <<"d", "e", "v", "e", "l", "o", "p">>,
            <<"w", "e", "b", "s", "i", "t", "e">>,
            <<"d", "a", "t", "a", "b", "a", "s", "e">>,
            <<"f", "u", "n", "c", "t", "i", "o", "n">>,
            <<"r", "e", "a", "c", "t">>,
            <<"p", "y", "t", "h", "o", "n">>,
            <<"j", "a", "v", "a", "s", "c", "r", "i", "p", "t">>>>],
      [intent |-> "Writing & Content",
        kws |-> <<
            <<"w", "r", "i", "t", "e">>,
            <<"e", "s", "s", "a", "y">>,
            <<"a", "r", "t", "i", "c", "l", "e">>,
            <<"b", "l", "o", "g">>,
            <<"e", "m", "a", "i", "l">>,
            <<"r", "e", "p", "o", "r", "t">>,
            <<"d", "o", "c", "u", "m", "e", "n", "t", "a", "t", "i", "o", "n">>,
            <<"c", "o", "n", "t", "e", "n", "t">>,
            <<"t", "r", "a", "n", "s", "l", "a", "t", "e">>>>],
      [intent |-> "Analysis & Research",
        kws |-> <<
            <<"a", "n", "a", "l", "y", "z", "e">>,
            <<"r", "e", "s", "e", "a", "r", "c", "h">>,
            <<"c", "o", "m", "p", "a", "r", "e">>,
            <<"e", "v", "a", "l", "u", "a", "t", "e">>,
            <<"e", "x", "p", "l", "a", "i", "n">>,
            <<"d", "a", "t", "a">>,
            <<"s", "t", "a", "t", "i", "s", "t", "i", "c", "s">>>>],
      [intent |-> "Problem Solving",
        kws |-> <<
            <<"f", "i", "x">>,
            <<"d", "e", "b", "u", "g">>,
            <<"e", "r", "r", "o", "r">>,
            <<"p", "r", "o", "b", "l", "e", "m">>,
            <<"s", "o", "l", "v", "e">>,
            <<"h", "e", "l", "p">>,
            <<"t", "r", "o", "u", "b", "l", "e", "s", "h", "o", "o", "t">>,
            <<"b", "r", "o", "k", "e", "n">>,
            <<"b", "u", "g">>>>],
      [intent |-> "Creative",
        kws |-> <<
            <<"d", "e", "s", "i", "g", "n">>,
            <<"u", "i">>,
            <<"u", "x">>,
            <<"l", "o", "g", "o">>,
            <<"b", "r", "a", "n", "d">>,
            <<"g", "a", "m", "e">>,
            <<"i", "d", "e", "a">>,
            <<"b", "r", "a", "i", "n", "s", "t", "o", "r", "m">>>>]>>

\* the number of keywords of kws that lower includes
RECURSIVE ConverseRoute_Score(_, _)
ConverseRoute_Score(lower, kws) ==
    IF kws = <<>> THEN 0
    ELSE (IF Includes(lower, Head(kws)) THEN 1 ELSE 0)
         + ConverseRoute_Score(lower, Tail(kws))

\* the loop over Object.entries(INTENT_PATTERNS), carrying best and bestScore
RECURSIVE ConverseRoute_Best(_, _, _, _)
ConverseRoute_Best(lower, entries, best, bestScore) ==
    IF entries = <<>> THEN best
    ELSE LET score == ConverseRoute_Score(lower, Head(entries).kws)
         IN  IF score > bestScore
             THEN ConverseRoute_Best(lower, Tail(entries), Head(entries).intent, score)
             ELSE ConverseRoute_Best(lower, Tail(entries), best, bestScore)

ConverseRoute_detectIntentOf(text) ==
    ConverseRoute_Best(ToLowerCase(text), ConverseRoute_INTENT_PATTERNS, "General", 0)

\* detectIntent on the texts the model feeds it, evaluated once
ConverseRoute_KnownIntents ==
    [text \in {Hi, Help, EightWords, Words(16)} |-> ConverseRoute_detectIntentOf(text)]

ConverseRoute_detectIntent(text) ==
    IF text \in DOMAIN ConverseRoute_KnownIntents
    THEN ConverseRoute_KnownIntents[text]
    ELSE ConverseRoute_detectIntentOf(text)

ConverseRoute_POST_KeepAsking(transcript, conversationHistory) ==
    LET intent == ConverseRoute_detectIntent(transcript)
        totalWords == SplitWhitespaceLength(
            Join(ContentsOf(conversationHistory, "user") \o <<transcript>>, <<" ">>))
        isComplete == totalWords > 15 \/ Len(conversationHistory) >= 4
        questions == IF intent \in DOMAIN ConverseRoute_CLARIFYING_TEMPLATES
                     THEN ConverseRoute_CLARIFYING_TEMPLATES[intent]
                     ELSE ConverseRoute_CLARIFYING_TEMPLATES["General"]
        askedQuestions == Range(ContentsOf(conversationHistory, "assistant"))
        unasked == Unasked(questions, askedQuestions)
        question == IF Len(unasked) > 0 THEN unasked[1] ELSE ClosingLine
    IN  IF Trim(transcript) = <<>>
        THEN [status |-> 400, error |-> Lit("Transcript is required")]
        ELSE IF isComplete
        THEN [status |-> 200,
              data |-> [response |-> ReadyResponse, shouldStructure |-> TRUE,
                        intent |-> intent, isComplete |-> TRUE]]
        ELSE [status |-> 200,
              data |-> [response |-> question, shouldStructure |-> FALSE,
                        intent |-> intent, isComplete |-> FALSE]]

\* POST: the response to a request body {transcript, conversationHistory}
ConverseRoute_POST(transcript, conversationHistory) ==
    LET intent == ConverseRoute_detectIntent(transcript)
        totalWords == SplitWhitespaceLength(
            Join(ContentsOf(conversationHistory, "user") \o <<transcript>>, <<" ">>))
        isComplete == totalWords > 15 \/ Len(conversationHistory) >= 4
        questions == IF intent \in DOMAIN ConverseRoute_CLARIFYING_TEMPLATES
                     THEN ConverseRoute_CLARIFYING_TEMPLATES[intent]
                     ELSE ConverseRoute_CLARIFYING_TEMPLATES["General"]
        askedQuestions == Range(ContentsOf(conversationHistory, "assistant"))
        unasked == Unasked(questions, askedQuestions)
        question == IF Len(unasked) > 0 THEN unasked[1] ELSE ClosingLine
    IN  IF Trim(transcript) = <<>>
        THEN [status |-> 400, error |-> Lit("Transcript is required")]
        ELSE IF isComplete
        THEN [status |-> 200,
              data |-> [response |-> ReadyResponse, shouldStructure |-> TRUE,
                        intent |-> intent, isComplete |-> TRUE]]
        ELSE [status |-> 200,
              data |-> [response |-> question, shouldStructure |-> Len(unasked) = 0,
                        intent |-> intent, isComplete |-> FALSE]]

(***************************************************************************)
(* The hosted-model call: callOpenRouter and what its caller reads of it.  *)
(* An outcome is one of                                                    *)
(*   [kind |-> "transportError"]   fetch rejects                           *)
(*   [kind |-> "httpError"]        res.ok is false, callOpenRouter throws  *)
(*   [kind |-> "bodyNotJson"]      res.json() rejects                      *)
(*   [kind |-> "ok", content |-> c]  a completion object; c is what        *)
(*        choices?.[0]?.message?.content holds, NoContent when the chain   *)
(*        yields undefined, null or the empty string                       *)
(***************************************************************************)
NoContent == [kind |-> "none"]

\* aiResponse.choices?.[0]?.message?.content || ""
AiTextOf(outcome) == outcome.content

AdapterThrows(outcome) == outcome.kind \in {"transportError", "httpError", "bodyNotJson"}

HasCredential_AnyKey(req) == "apiKey" \in DOMAIN req

\* apiKey && apiKey.trim(): the field is present and not blank
HasCredential(req) == "apiKey" \in DOMAIN req /\ Trim(req.apiKey) # <<>>

BlankTranscript_MissingOnly(req) == "transcript" \notin DOMAIN req

\* !transcript || transcript.trim().length === 0
BlankTranscript(req) == "transcript" \notin DOMAIN req \/ Trim(req.transcript) = <<>>

\* [A-Za-z0-9_], the characters on the word side of \b
IsWordChar(c) ==
    \/ \E k \in 1..26 : c = UpperCase[k] \/ c = LowerCase[k]
    \/ c \in {"0", "1", "2", "3", "4", "5", "6", "7", "8", "9", "_"}

\* /\b(kw)\b/i matches text at position i
WordMatchesAt(lower, kw, i) ==
    /\ i + Len(kw) - 1 <= Len(lower)
    /\ SubSeq(lower, i, i + Len(kw) - 1) = kw
    /\ (i = 1 \/ ~IsWordChar(lower[i - 1]))
    /\ (i + Len(kw) > Len(lower) \/ ~IsWordChar(lower[i + Len(kw)]))

\* /\b(kw1|kw2|...)\b/i.test(text)
WordPatternTest(text, kws) ==
    LET lower == ToLowerCase(text)
    IN  \E k \in 1..Len(kws) : \E i \in 1..Len(lower) : WordMatchesAt(lower, kws[k], i)

(***************************************************************************)
(* unnamed/part_000: the turn-processing boundary with the adapter         *)
(* (the second pattern of each category holds Telugu words only; it        *)
(* matches no text made of the ASCII characters the inputs use)            *)
(***************************************************************************)
Part000_INTENT_PATTERNS ==
    <<[intent |-> "Code Generation",
        kws |-> <<
            <<"c", "o", "d", "e">>,
            <<"p", "r", "o", "g", "r", "a", "m">>,
            <<"f", "u", "n", "c", "t", "i", "o", "n">>,
            <<"c", "l", "a", "s", "s">>,
            <<"a", "p", "i">>,
            <<"s", "c", "r", "i", "p", "t">>,
            <<"b", "u", "i", "l", "d">>,
            <<"c", "r", "e", "a", "t", "e">>,
            <<"d", "e", "v", "e", "l", "o", "p">>,
            <<"i", "m", "p", "l", "e", "m", "e", "n", "t">>,
            <<"w", "r", "i", "t", "e", " ", "c", "o", "d", "e">>,
            <<"d", "e", "b", "u", "g">>,
            <<"f", "i", "x", " ", "b", "u", "g">>>>],
      [intent |-> "Writing",
        kws |-> <<
            <<"w", "r", "i", "t", "e">>,
            <<"e", "s", "s", "a", "y">>,
            <<"a", "r", "t", "i", "c", "l", "e">>,
            <<"b", "l", "o", "g">>,
            <<"s", "t", "o", "r", "y">>,
            <<"e", "m", "a", "i", "l">>,
            <<"l", "e", "t", "t", "e", "r">>,
            <<"c", "o", "n", "t", "e", "n", "t">>,
            <<"c", "o", "p", "y">>,
            <<"d", "r", "a", "f", "t">>>>],
      [intent |-> "Analysis",
        kws |-> <<
            <<"a", "n", "a", "l", "y", "z", "e">>,
            <<"r", "e", "v", "i", "e", "w">>,
            <<"c", "o", "m", "p", "a", "r", "e">>,
            <<"e", "v", "a", "l", "u", "a", "t", "e">>,
            <<"a", "s", "s", "e", "s", "s">>,
            <<"r", "e", "s", "e", "a", "r", "c", "h">>,
            <<"s", "t", "u", "d", "y">>,
            <<"e", "x", "p", "l", "a", "i", "n">>>>],
      [intent |-> "Creative",
        kws |-> <<
            <<"d", "e", "s", "i", "g", "n">>,
            <<"c", "r", "e", "a", "t", "i", "v", "e">>,
            <<"i", "m", "a", "g", "i", "n", "e">>,
            <<"b", "r", "a", "i", "n", "s", "t", "o", "r", "m">>,
            <<"i", "d", "e", "a">>,
            <<"c", "o", "n", "c", "e", "p", "t">>,
            <<"i", "n", "n", "o", "v", "a", "t", "e">>>>],
      [intent |-> "Data",
        kws |-> <<
            <<"d", "a", "t", "a">>,
            <<"d", "a", "t", "a", "b", "a", "s", "e">>,
            <<"s", "q", "l">>,
            <<"q", "u", "e", "r", "y">>,
            <<"c", "s", "v">>,
            <<"j", "s", "o", "n">>,
            <<"s", "p", "r", "e", "a", "d", "s", "h", "e", "e", "t">>,
            <<"t", "a", "b", "l", "e">>,
            <<"c", "h", "a", "r", "t">>>>]>>

\* the first category, in table order, one of whose patterns matches
RECURSIVE Part000_FirstMatch_NoDefault(_, _)
Part000_FirstMatch_NoDefault(text, entries) ==
    IF entries = <<>> THEN "undefined"
    ELSE IF WordPatternTest(text, Head(entries).kws)
         THEN Head(entries).intent
         ELSE Part000_FirstMatch_NoDefault(text, Tail(entries))

RECURSIVE Part000_FirstMatch(_, _)
Part000_FirstMatch(text, entries) ==
    IF entries = <<>> THEN "General"
    ELSE IF WordPatternTest(text, Head(entries).kws)
         THEN Head(entries).intent
         ELSE Part000_FirstMatch(text, Tail(entries))

Part000_detectIntentOf(text) == Part000_FirstMatch(text, Part000_INTENT_PATTERNS)

Part000_CLARIFYING_TEMPLATES ==
    [x \in {"Code Generation", "Writing", "Analysis", "Creative", "Data", "General"} |->
        CASE x = "Code Generation" ->
                <<Lit("What programming language should I use?"),
                  Lit("Can you describe the specific functionality you need?"),
                  Lit("Are there any frameworks or libraries you prefer?")>>
          [] x = "Writing" ->
                <<Lit("What's the target audience for this piece?"),
                  Lit("How long should it be?"),
                  Lit("What tone are you going for - formal, casual, persuasive?")>>
          [] x = "Analysis" ->
                <<Lit("What specific aspects should I focus on?"),
                  Lit("What's the context or background for this analysis?"),
                  Lit("What format do you want the analysis in?")>>
          [] x = "Creative" ->
                <<Lit("What style or aesthetic are you going for?"),
                  Lit("Are there any constraints or requirements to keep in mind?"),
                  Lit("What's the purpose - is it for a project, personal use, or something else?")>>
          [] x = "Data" ->
                <<Lit("What type of data are we working with?"),
                  Lit("What's the expected output format?"),
                  Lit("Are there any specific tools or platforms involved?")>>
          [] x = "General" ->
                <<Lit("Can you tell me more about what you're looking for?"),
                  Lit("What specific outcome do you need?"),
                  Lit("Are there any constraints I should know about?")>>]

Part000_DefaultReply ==
    Lit("Great! I have enough information. Let me structure that into a prompt for you.")

\* detectIntent on the texts the model feeds it, evaluated once
Part000_KnownIntents ==
    [text \in {Hi, Help, WriteCode, EightWords, Words(16)} |-> Part000_detectIntentOf(text)]

Part000_detectIntent(text) ==
    IF text \in DOMAIN Part000_KnownIntents
    THEN Part000_KnownIntents[text]
    ELSE Part000_detectIntentOf(text)

\* conversationHistory = [] when the body has none
HistoryOf(req) ==
    IF "conversationHistory" \in DOMAIN req THEN req.conversationHistory ELSE <<>>

\* the rule-based reply (part_000:154-190)
Part000_RuleBased(req) ==
    LET transcript == req.transcript
        conversationHistory == HistoryOf(req)
        intent == Part000_detectIntent(transcript)
        totalWords == SplitWhitespaceLength(
            Join(ContentsOf(conversationHistory, "user") \o <<transcript>>, <<" ">>))
        isComplete == totalWords > 15 \/ Len(conversationHistory) >= 4
        questions == IF intent \in DOMAIN Part000_CLARIFYING_TEMPLATES
                     THEN Part000_CLARIFYING_TEMPLATES[intent]
                     ELSE Part000_CLARIFYING_TEMPLATES["General"]
        askedQuestions == Range(ContentsOf(conversationHistory, "assistant"))
        unasked == Unasked(questions, askedQuestions)
        question == IF Len(unasked) > 0 THEN unasked[1] ELSE ClosingLine
    IN  IF isComplete
        THEN [status |-> 200,
              data |-> [response |-> ReadyResponse, shouldStructure |-> TRUE,
                        intent |-> intent, isComplete |-> TRUE]]
        ELSE [status |-> 200,
              data |-> [response |-> question, shouldStructure |-> Len(unasked) = 0,
                        intent |-> intent, isComplete |-> FALSE]]

\* the reply built from the completion text (part_000:133-147).  The text is
\* NoContent, or [ready, text]: the marker READY_TO_STRUCTURE when ready, and
\* text, what replace(marker, "").trim() leaves of it
Part000_FromAdapter(req, aiText) ==
    LET ready == aiText # NoContent /\ aiText.ready
        shouldStructure == ready \/ Len(HistoryOf(req)) >= 4
        cleanResponse == IF aiText = NoContent \/ aiText.text = <<>>
                         THEN Part000_DefaultReply
                         ELSE aiText.text
    IN  [status |-> 200,
         data |-> [response |-> cleanResponse, shouldStructure |-> shouldStructure,
                   intent |-> Part000_detectIntent(req.transcript),
                   isComplete |-> shouldStructure]]

\* what the handler returns once callOpenRouter has settled, and which
\* computation produced it
Part000_AfterAdapter_FallThrough(req, outcome) ==
    [response |-> Part000_RuleBased(req),
     committed |-> IF AdapterThrows(outcome) THEN <<"fallback">>
                   ELSE <<"adapter", "fallback">>]

Part000_AfterAdapter(req, outcome) ==
    IF AdapterThrows(outcome)
    THEN [response |-> Part000_RuleBased(req), committed |-> <<"fallback">>]
    ELSE [response |-> Part000_FromAdapter(req, AiTextOf(outcome)),
          committed |-> <<"adapter">>]

\* a field of a parsed object, or the default when it is missing
FieldOr(rec, name, default) == IF name \in DOMAIN rec THEN rec[name] ELSE default

\* items.map(r => prefix + r).join(sep)
RECURSIVE Bullets(_, _, _)
Bullets(items, prefix, sep) ==
    IF items = <<>> THEN <<>>
    ELSE IF Len(items) = 1 THEN prefix \o items[1]
         ELSE prefix \o items[1] \o sep \o Bullets(Tail(items), prefix, sep)

(***************************************************************************)
(* unnamed/part_002, lines 1-181: the structuring boundary with the        *)
(* adapter (patterns made of Telugu words only are left out: they match    *)
(* no text made of the ASCII characters the inputs use)                    *)
(***************************************************************************)
Part002_INTENT_PATTERNS ==
    <<[intent |-> "Code Generation",
        kws |-> <<
            <<"c", "o", "d", "e">>,
            <<"p", "r", "o", "g", "r", "a", "m">>,
            <<"f", "u", "n", "c", "t", "i", "o", "n">>,
            <<"c", "l", "a", "s", "s">>,
            <<"a", "p", "i">>,
            <<"s", "c", "r", "i", "p", "t">>,
            <<"b", "u", "i", "l", "d">>,
            <<"c", "r", "e", "a", "t", "e">>,
            <<"d", "e", "v", "e", "l", "o", "p">>,
            <<"i", "m", "p", "l", "e", "m", "e", "n", "t">>,
            <<"d", "e", "b", "u", "g">>,
            <<"f", "i", "x">>>>],
      [intent |-> "Writing",
        kws |-> <<
            <<"w", "r", "i", "t", "e">>,
            <<"e", "s", "s", "a", "y">>,
            <<"a", "r", "t", "i", "c", "l", "e">>,
            <<"b", "l", "o", "g">>,
            <<"s", "t", "o", "r", "y">>,
            <<"e", "m", "a", "i", "l">>,
            <<"l", "e", "t", "t", "e", "r">>,
            <<"c", "o", "n", "t", "e", "n", "t">>,
            <<"d", "r", "a", "f", "t">>>>],
      [intent |-> "Analysis",
        kws |-> <<
            <<"a", "n", "a", "l", "y", "z", "e">>,
            <<"r", "e", "v", "i", "e", "w">>,
            <<"c", "o", "m", "p", "a", "r", "e">>,
            <<"e", "v", "a", "l", "u", "a", "t", "e">>,
            <<"a", "s", "s", "e", "s", "s">>,
            <<"r", "e", "s", "e", "a", "r", "c", "h">>,
            <<"e", "x", "p", "l", "a", "i", "n">>>>],
      [intent |-> "Creative",
        kws |-> <<
            <<"d", "e", "s", "i", "g", "n">>,
            <<"c", "r", "e", "a", "t", "i", "v", "e">>,
            <<"i", "m", "a", "g", "i", "n", "e">>,
            <<"b", "r", "a", "i", "n", "s", "t", "o", "r", "m">>,
            <<"i", "d", "e", "a">>,
            <<"c", "o", "n", "c", "e", "p", "t">>>>],
      [intent |-> "Data",
        kws |-> <<
            <<"d", "a", "t", "a">>,
            <<"d", "a", "t", "a", "b", "a", "s", "e">>,
            <<"s", "q", "l">>,
            <<"q", "u", "e", "r", "y">>,
            <<"c", "s", "v">>,
            <<"j", "s", "o", "n">>,
            <<"t", "a", "b", "l", "e">>,
            <<"c", "h", "a", "r", "t">>>>]>>

RECURSIVE Part002_FirstMatch(_, _)
Part002_FirstMatch(text, entries) ==
    IF entries = <<>> THEN "General"
    ELSE IF WordPatternTest(text, Head(entries).kws)
         THEN Head(entries).intent
         ELSE Part002_FirstMatch(text, Tail(entries))

Part002_detectIntent(text) == Part002_FirstMatch(text, Part002_INTENT_PATTERNS)

\* the number of whitespace characters in a row from position p on
RECURSIVE WhitespaceRun(_, _)
WhitespaceRun(text, p) ==
    IF p <= Len(text) /\ IsWhitespace(text[p]) THEN 1 + WhitespaceRun(text, p + 1) ELSE 0

\* the characters the regular expression dot does not match
IsLineTerminator(c) == c \in {"\n", "\r"}

\* (.+?)(?:\.|,|$) with the capture starting at s: the capture ends before
\* the first '.', ',' or end of input after s; no match across a line end
RECURSIVE CaptureEnd(_, _)
CaptureEnd(text, j) ==
    IF j > Len(text) THEN j
    ELSE IF text[j] \in {".", ","} THEN j
    ELSE IF IsLineTerminator(text[j]) THEN 0
    ELSE CaptureEnd(text, j + 1)

\* \s+(.+?)(?:\.|,|$) from position p, \s+ taking k characters, then fewer
RECURSIVE TailMatch(_, _, _)
TailMatch(text, p, k) ==
    IF k < 1 THEN [ok |-> FALSE]
    ELSE LET s == p + k
             j == CaptureEnd(text, s + 1)
         IN  IF s <= Len(text) /\ ~IsLineTerminator(text[s]) /\ j # 0
             THEN [ok |-> TRUE, cap |-> SubSeq(text, s, j - 1),
                   next |-> IF j <= Len(text) THEN j + 1 ELSE j]
             ELSE TailMatch(text, p, k - 1)

\* (?:alt1|alt2|...)\s+(.+?)(?:\.|,|$) at position i, alternatives in order
RECURSIVE MatchAt(_, _, _, _)
MatchAt(text, lower, i, alts) ==
    IF alts = <<>> THEN [ok |-> FALSE]
    ELSE LET p == i + Len(Head(alts))
             here == /\ p - 1 <= Len(lower)
                     /\ SubSeq(lower, i, p - 1) = Head(alts)
             m == TailMatch(text, p, WhitespaceRun(text, p))
         IN  IF here /\ m.ok THEN m ELSE MatchAt(text, lower, i, Tail(alts))

\* while ((m = p.exec(text)) !== null) push(m[1].trim()), lastIndex at from
RECURSIVE ExecAll(_, _, _, _)
ExecAll(text, lower, alts, from) ==
    IF from > Len(text) THEN <<>>
    ELSE LET m == MatchAt(text, lower, from, alts)
         IN  IF m.ok
             THEN <<Trim(m.cap)>> \o ExecAll(text, lower, alts, m.next)
             ELSE ExecAll(text, lower, alts, from + 1)

\* i need|i want|should have|must have|requires?|include
Part002_RequirementAlts ==
    <<<<"i", " ", "n", "e", "e", "d">>,
      <<"i", " ", "w", "a", "n", "t">>,
      <<"s", "h", "o", "u", "l", "d", " ", "h", "a", "v", "e">>,
      <<"m", "u", "s", "t", " ", "h", "a", "v", "e">>,
      <<"r", "e", "q", "u", "i", "r", "e", "s">>,
      <<"r", "e", "q", "u", "i", "r", "e">>,
      <<"i", "n", "c", "l", "u", "d", "e">>>>

\* don't|do not|avoid|without|no |shouldn't
Part002_ConstraintAlts ==
    <<<<"d", "o", "n", "'", "t">>,
      <<"d", "o", " ", "n", "o", "t">>,
      <<"a", "v", "o", "i", "d">>,
      <<"w", "i", "t", "h", "o", "u", "t">>,
      <<"n", "o", " ">>,
      <<"s", "h", "o", "u", "l", "d", "n", "'", "t">>>>

\* only|must be|should be|limit|restrict
Part002_LimitAlts ==
    <<<<"o", "n", "l", "y">>,
      <<"m", "u", "s", "t", " ", "b", "e">>,
      <<"s", "h", "o", "u", "l", "d", " ", "b", "e">>,
      <<"l", "i", "m", "i", "t">>,
      <<"r", "e", "s", "t", "r", "i", "c", "t">>>>

Part002_extractRequirements(text) ==
    LET reqs == ExecAll(text, ToLowerCase(text), Part002_RequirementAlts, 1)
    IN  IF Len(reqs) = 0 /\ Len(text) > 10
        THEN <<IF Len(text) > 100 THEN SubSeq(text, 1, 100) ELSE text>>
        ELSE reqs

Part002_extractConstraints(text) ==
    ExecAll(text, ToLowerCase(text), Part002_ConstraintAlts, 1)
        \o ExecAll(text, ToLowerCase(text), Part002_LimitAlts, 1)

Part002_calculateQuality(text, reqs, constraints, intent) ==
    LET words == SplitWhitespaceLength(text)
        score == 20
                 + (IF words > 5 THEN 15 ELSE 0)
                 + (IF words > 20 THEN 15 ELSE 0)
                 + (IF Len(reqs) > 0 THEN 15 ELSE 0)
                 + (IF Len(reqs) > 2 THEN 10 ELSE 0)
                 + (IF Len(constraints) > 0 THEN 10 ELSE 0)
                 + (IF intent # "General" THEN 15 ELSE 0)
    IN  IF score < 100 THEN score ELSE 100

\* text.split(/\s+/)
RECURSIVE SplitWhitespace(_)
SplitWhitespace(text) ==
    IF \A i \in 1..Len(text) : ~IsWhitespace(text[i]) THEN <<text>>
    ELSE LET i == CHOOSE i \in 1..Len(text) :
                    IsWhitespace(text[i]) /\ \A h \in 1..(i - 1) : ~IsWhitespace(text[h])
             k == WhitespaceRun(text, i)
         IN  <<SubSeq(text, 1, i - 1)>> \o SplitWhitespace(SubSeq(text, i + k, Len(text)))

\* the rule-based reply (part_002:151-176)
Part002_RuleBased(req) ==
    LET transcript == req.transcript
        intent == Part002_detectIntent(transcript)
        requirements == Part002_extractRequirements(transcript)
        constraints == Part002_extractConstraints(transcript)
        outputFormat ==
            IF intent = "Code Generation" THEN Lit("Working code with comments")
            ELSE IF intent = "Writing" THEN Lit("Well-structured text")
            ELSE IF intent = "Analysis" THEN Lit("Detailed analysis with insights")
            ELSE Lit("Clear, helpful response")
        pieces == SplitWhitespace(transcript)
        words == Join(SubSeq(pieces, 1, IF Len(pieces) < 8 THEN Len(pieces) ELSE 8), <<" ">>)
        title == IF Len(words) > 50 THEN SubSeq(words, 1, 47) \o Lit("...") ELSE words
        context == transcript
        sections ==
            <<Lit("## Task\n") \o context>>
            \o (IF Len(requirements) > 0
                THEN <<Lit("## Requirements\n") \o Bullets(requirements, Lit("- "), Lit("\n"))>>
                ELSE <<>>)
            \o (IF Len(constraints) > 0
                THEN <<Lit("## Constraints\n") \o Bullets(constraints, Lit("- "), Lit("\n"))>>
                ELSE <<>>)
            \o <<Lit("## Expected Output\n") \o outputFormat>>
            \o <<Lit("## Guidelines\n- Be thorough and detailed\n- Follow best practices\n- Explain important decisions")>>
    IN  [status |-> 200,
         data |-> [title |-> title, intent |-> Lit(intent), context |-> context,
                   requirements |-> requirements, constraints |-> constraints,
                   outputFormat |-> outputFormat,
                   fullPrompt |-> Join(sections, Lit("\n\n")),
                   qualityScore |-> Part002_calculateQuality(
                                        transcript, requirements, constraints, intent)]]

\* parsed.name || default: the default stands in for every falsy value, a
\* missing field and the empty string among them
TextOr(rec, name, default) ==
    IF name \in DOMAIN rec /\ rec[name] # <<>> THEN rec[name] ELSE default

\* parsed.name || default for a number: a missing field and 0 are falsy
NumberOr(rec, name, default) ==
    IF name \in DOMAIN rec /\ rec[name] # 0 THEN rec[name] ELSE default

\* the completion text of the structuring call is NoContent or
\* [match, parsed]: match is "none" when /\{[\s\S]*\}/ finds nothing,
\* "malformed" when JSON.parse throws on what it finds, and "object" when it
\* parses to the object parsed
Part002_AdapterUsable(aiText) ==
    /\ aiText # NoContent
    /\ aiText.match = "object"

\* the reply built from the parsed object (part_002:131-144)
Part002_FromAdapter(req, aiText) ==
    LET parsed == aiText.parsed
    IN  [status |-> 200,
         data |-> [title |-> TextOr(parsed, "title", Lit("Untitled Prompt")),
                   intent |-> TextOr(parsed, "intent", Lit("General")),
                   context |-> TextOr(parsed, "context", req.transcript),
                   requirements |-> FieldOr(parsed, "requirements", <<>>),
                   constraints |-> FieldOr(parsed, "constraints", <<>>),
                   outputFormat |-> TextOr(parsed, "outputFormat", Lit("Clear response")),
                   fullPrompt |-> TextOr(parsed, "fullPrompt", req.transcript),
                   qualityScore |-> NumberOr(parsed, "qualityScore", 70)]]

Part002_AfterAdapter_FallThrough(req, outcome) ==
    [response |-> Part002_RuleBased(req),
     committed |-> IF AdapterThrows(outcome) \/ ~Part002_AdapterUsable(AiTextOf(outcome))
                   THEN <<"fallback">>
                   ELSE <<"adapter", "fallback">>]

Part002_AfterAdapter(req, outcome) ==
    IF AdapterThrows(outcome) \/ ~Part002_AdapterUsable(AiTextOf(outcome))
    THEN [response |-> Part002_RuleBased(req), committed |-> <<"fallback">>]
    ELSE [response |-> Part002_FromAdapter(req, AiTextOf(outcome)),
          committed |-> <<"adapter">>]

(***************************************************************************)
(* app/api/format/route.ts: the formatting boundary                        *)
(***************************************************************************)
Claude == <<"C", "l", "a", "u", "d", "e">>
Gemini == <<"G", "e", "m", "i", "n", "i">>
ChatGPT == <<"C", "h", "a", "t", "G", "P", "T">>
DeepSeek == <<"D", "e", "e", "p", "S", "e", "e", "k">>
Grok == <<"G", "r", "o", "k">>
General == <<"G", "e", "n", "e", "r", "a", "l">>

\* xs.map(x => prefix + x).join(sep)
FormatRoute_formatForClaude(ctx, reqs, cons, out) ==
    LET p0 == Lit("<task>\n") \o ctx \o Lit("\n</task>\n")
        p1 == IF Len(reqs) # 0
              THEN p0 \o Lit("\n<requirements>\n") \o Bullets(reqs, Lit("- "), Lit("\n"))
                      \o Lit("\n</requirements>\n")
              ELSE p0
        p2 == IF Len(cons) # 0
              THEN p1 \o Lit("\n<constraints>\n") \o Bullets(cons, Lit("- "), Lit("\n"))
                      \o Lit("\n</constraints>\n")
              ELSE p1
    IN  [llmName |-> Claude, description |-> Lit("XML tags + structured thinking"),
         formattedPrompt |->
            p2 \o Lit("\n<output_format>\n") \o out
               \o Lit("\n</output_format>\n\n<thinking>\nPlease think step by step before responding.\n</thinking>")]

FormatRoute_formatForGemini(ctx, reqs, cons, out) ==
    LET p0 == Lit("# Task\n") \o ctx \o Lit("\n")
        p1 == IF Len(reqs) # 0
              THEN p0 \o Lit("\n## Requirements\n") \o Bullets(reqs, Lit("* "), Lit("\n"))
                      \o Lit("\n")
              ELSE p0
        p2 == IF Len(cons) # 0
              THEN p1 \o Lit("\n## Constraints\n") \o Bullets(cons, Lit("* "), Lit("\n"))
                      \o Lit("\n")
              ELSE p1
    IN  [llmName |-> Gemini, description |-> Lit("Markdown with grounding"),
         formattedPrompt |->
            p2 \o Lit("\n## Expected Output\n") \o out
               \o Lit("\n\n---\n*Please provide a thorough, well-organized response.*")]

FormatRoute_formatForChatGPT(ctx, reqs, cons, out, intent) ==
    LET system == Lit("You are an expert ") \o ToLowerCase(intent)
                    \o Lit(" assistant. Follow the user's instructions precisely.")
        u0 == ctx
        u1 == IF Len(reqs) # 0
              THEN u0 \o Lit("\n\nRequirements:\n") \o Bullets(reqs, Lit("- "), Lit("\n"))
              ELSE u0
        u2 == IF Len(cons) # 0
              THEN u1 \o Lit("\n\nConstraints:\n") \o Bullets(cons, Lit("- "), Lit("\n"))
              ELSE u1
        user == u2 \o Lit("\n\nExpected output: ") \o out
    IN  [llmName |-> ChatGPT, description |-> Lit("System/User message split"),
         formattedPrompt |->
            Lit("[System]\n") \o system \o Lit("\n\n[User]\n") \o user]

FormatRoute_formatForDeepSeek(ctx, reqs, cons, out) ==
    LET p0 == Lit("Let me think about this step by step.\n\n**Task:** ") \o ctx \o Lit("\n")
        p1 == IF Len(reqs) # 0
              THEN p0 \o Lit("\n**Requirements:**\n") \o Bullets(reqs, Lit("- "), Lit("\n"))
                      \o Lit("\n")
              ELSE p0
        p2 == IF Len(cons) # 0
              THEN p1 \o Lit("\n**Constraints:**\n") \o Bullets(cons, Lit("- "), Lit("\n"))
                      \o Lit("\n")
              ELSE p1
    IN  [llmName |-> DeepSeek, description |-> Lit("Chain-of-thought reasoning"),
         formattedPrompt |->
            p2 \o Lit("\n**Expected Output:** ") \o out
               \o Lit("\n\nPlease reason through this carefully, showing your thought process before providing the final answer.")]

FormatRoute_formatForGrok(ctx, reqs, cons, out) ==
    LET p0 == ctx
        p1 == IF Len(reqs) # 0
              THEN p0 \o Lit(" Requirements: ") \o Join(reqs, Lit(", ")) \o Lit(".")
              ELSE p0
        p2 == IF Len(cons) # 0
              THEN p1 \o Lit(" Avoid: ") \o Join(cons, Lit(", ")) \o Lit(".")
              ELSE p1
    IN  [llmName |-> Grok, description |-> Lit("Concise & direct"),
         formattedPrompt |-> p2 \o Lit(" Output: ") \o out \o Lit(". Be direct and concise.")]

\* !prompt || !prompt.context
FormatRoute_Invalid(req) ==
    \/ "prompt" \notin DOMAIN req
    \/ "context" \notin DOMAIN req.prompt
    \/ req.prompt.context = <<>>

\* if (targetLLM): the field is present and not the empty string
HasTarget(req) == "targetLLM" \in DOMAIN req /\ req.targetLLM # <<>>

\* allFormats.find(f => f.llmName.toLowerCase() === targetLLM.toLowerCase()):
\* the element found; "none"; or "throws", when an element reached before a
\* match has no llmName to call toLowerCase on
RECURSIVE FindByName(_, _)
FindByName(formats, targetLLM) ==
    IF formats = <<>> THEN [kind |-> "none"]
    ELSE IF "llmName" \notin DOMAIN Head(formats) THEN [kind |-> "throws"]
    ELSE IF ToLowerCase(Head(formats).llmName) = ToLowerCase(targetLLM)
         THEN [kind |-> "found", item |-> Head(formats)]
         ELSE FindByName(Tail(formats), targetLLM)

FormatRoute_AllFormats(req) ==
    LET context == req.prompt.context
        requirements == FieldOr(req.prompt, "requirements", <<>>)
        constraints == FieldOr(req.prompt, "constraints", <<>>)
        outputFormat == FieldOr(req.prompt, "outputFormat", Lit("Clear response"))
        intent == FieldOr(req.prompt, "intent", General)
    IN  <<FormatRoute_formatForClaude(context, requirements, constraints, outputFormat),
          FormatRoute_formatForGemini(context, requirements, constraints, outputFormat),
          FormatRoute_formatForChatGPT(context, requirements, constraints, outputFormat, intent),
          FormatRoute_formatForDeepSeek(context, requirements, constraints, outputFormat),
          FormatRoute_formatForGrok(context, requirements, constraints, outputFormat)>>

\* the rule-based reply (route.ts:142-157)
FormatRoute_RuleBased(req) ==
    LET allFormats == FormatRoute_AllFormats(req)
        match == FindByName(allFormats, req.targetLLM)
    IN  IF HasTarget(req)
        THEN IF match.kind = "found"
             THEN [status |-> 200, data |-> <<match.item>>]
             ELSE [status |-> 400, error |-> Lit("Unknown LLM: ") \o req.targetLLM]
        ELSE [status |-> 200, data |-> allFormats]

\* the completion text of the formatting call is NoContent or
\* [match, parsed]: match is "none" when /\[[\s\S]*\]/ finds nothing,
\* "malformed" when JSON.parse throws on what it finds, and "array" when it
\* parses to the array parsed
FormatRoute_AdapterUsable(req, aiText) ==
    /\ aiText # NoContent
    /\ aiText.match = "array"
    /\ Len(aiText.parsed) > 0
    /\ (HasTarget(req) => FindByName(aiText.parsed, req.targetLLM).kind # "throws")

\* the reply built from the parsed array (route.ts:129-135)
FormatRoute_FromAdapter(req, aiText) ==
    LET parsed == aiText.parsed
        match == FindByName(parsed, req.targetLLM)
    IN  IF HasTarget(req) /\ match.kind = "found"
        THEN [status |-> 200, data |-> <<match.item>>]
        ELSE [status |-> 200, data |-> parsed]

FormatRoute_AfterAdapter_FallThrough(req, outcome) ==
    [response |-> FormatRoute_RuleBased(req),
     committed |-> IF AdapterThrows(outcome) \/ ~FormatRoute_AdapterUsable(req, AiTextOf(outcome))
                   THEN <<"fallback">>
                   ELSE <<"adapter", "fallback">>]

FormatRoute_AfterAdapter(req, outcome) ==
    IF AdapterThrows(outcome) \/ ~FormatRoute_AdapterUsable(req, AiTextOf(outcome))
    THEN [response |-> FormatRoute_RuleBased(req), committed |-> <<"fallback">>]
    ELSE [response |-> FormatRoute_FromAdapter(req, AiTextOf(outcome)),
          committed |-> <<"adapter">>]

(***************************************************************************)
(* lib/structurer.ts: the rule-based structuring engine                    *)
(***************************************************************************)
Structurer_INTENT_PATTERNS ==
    <<[intent |-> "Code Generation",
       kws |-> <<
            <<"c", "o", "d", "e">>, <<"p", "r", "o", "g", "r", "a", "m">>,
            <<"f", "u", "n", "c", "t", "i", "o", "n">>, <<"a", "p", "i">>, <<"a", "p", "p">>,
            <<"a", "p", "p", "l", "i", "c", "a", "t", "i", "o", "n">>,
            <<"b", "u", "i", "l", "d">>, <<"c", "r", "e", "a", "t", "e">>,
            <<"d", "e", "v", "e", "l", "o", "p">>,
            <<"i", "m", "p", "l", "e", "m", "e", "n", "t">>,
            <<"w", "r", "i", "t", "e", " ", "c", "o", "d", "e">>,
            <<"s", "c", "r", "i", "p", "t">>, <<"w", "e", "b", "s", "i", "t", "e">>,
            <<"w", "e", "b">>, <<"d", "a", "t", "a", "b", "a", "s", "e">>,
            <<"b", "a", "c", "k", "e", "n", "d">>, <<"f", "r", "o", "n", "t", "e", "n", "d">>,
            <<"f", "u", "l", "l", " ", "s", "t", "a", "c", "k">>,
            <<"f", "u", "l", "l", "s", "t", "a", "c", "k">>,
            <<"r", "e", "s", "t", " ", "a", "p", "i">>,
            <<"e", "n", "d", "p", "o", "i", "n", "t">>,
            <<"c", "o", "m", "p", "o", "n", "e", "n", "t">>, <<"c", "l", "a", "s", "s">>,
            <<"m", "o", "d", "u", "l", "e">>, <<"l", "i", "b", "r", "a", "r", "y">>,
            <<"p", "a", "c", "k", "a", "g", "e">>, <<"c", "r", "u", "d">>,
            <<"a", "u", "t", "h", "e", "n", "t", "i", "c", "a", "t", "i", "o", "n">>,
            <<"l", "o", "g", "i", "n">>, <<"s", "i", "g", "n", "u", "p">>,
            <<"d", "e", "p", "l", "o", "y">>, <<"s", "e", "r", "v", "e", "r">>,
            <<"c", "l", "i", "e", "n", "t">>, <<"m", "o", "b", "i", "l", "e">>,
            <<"r", "e", "a", "c", "t">>, <<"n", "e", "x", "t">>,
            <<"p", "y", "t", "h", "o", "n">>,
            <<"j", "a", "v", "a", "s", "c", "r", "i", "p", "t">>,
            <<"t", "y", "p", "e", "s", "c", "r", "i", "p", "t">>, <<"j", "a", "v", "a">>,
            <<"n", "o", "d", "e">>, <<"e", "x", "p", "r", "e", "s", "s">>,
            <<"d", "j", "a", "n", "g", "o">>, <<"f", "l", "a", "s", "k">>,
            <<"h", "t", "m", "l">>, <<"c", "s", "s">>, <<"s", "q", "l">>,
            <<"m", "o", "n", "g", "o", "d", "b">>, <<"f", "i", "r", "e", "b", "a", "s", "e">>,
            <<"d", "o", "c", "k", "e", "r">>,
            <<"k", "u", "b", "e", "r", "n", "e", "t", "e", "s">>>>],
      [intent |-> "Writing & Content",
       kws |-> <<
            <<"w", "r", "i", "t", "e">>, <<"e", "s", "s", "a", "y">>,
            <<"a", "r", "t", "i", "c", "l", "e">>, <<"b", "l", "o", "g">>,
            <<"p", "o", "s", "t">>, <<"e", "m", "a", "i", "l">>,
            <<"l", "e", "t", "t", "e", "r">>, <<"r", "e", "p", "o", "r", "t">>,
            <<"d", "o", "c", "u", "m", "e", "n", "t", "a", "t", "i", "o", "n">>,
            <<"r", "e", "a", "d", "m", "e">>, <<"s", "t", "o", "r", "y">>,
            <<"p", "o", "e", "m">>, <<"s", "p", "e", "e", "c", "h">>,
            <<"p", "r", "e", "s", "e", "n", "t", "a", "t", "i", "o", "n">>,
            <<"p", "r", "o", "p", "o", "s", "a", "l">>, <<"r", "e", "s", "u", "m", "e">>,
            <<"c", "o", "v", "e", "r", " ", "l", "e", "t", "t", "e", "r">>,
            <<"c", "o", "n", "t", "e", "n", "t">>, <<"c", "o", "p", "y">>,
            <<"s", "o", "c", "i", "a", "l", " ", "m", "e", "d", "i", "a">>,
            <<"t", "w", "e", "e", "t">>, <<"c", "a", "p", "t", "i", "o", "n">>,
            <<"h", "e", "a", "d", "l", "i", "n", "e">>,
            <<"d", "e", "s", "c", "r", "i", "p", "t", "i", "o", "n">>,
            <<"s", "u", "m", "m", "a", "r", "y">>,
            <<"t", "r", "a", "n", "s", "l", "a", "t", "e">>>>],
      [intent |-> "Analysis & Research",
       kws |-> <<
            <<"a", "n", "a", "l", "y", "z", "e">>, <<"a", "n", "a", "l", "y", "s", "i", "s">>,
            <<"r", "e", "s", "e", "a", "r", "c", "h">>, <<"c", "o", "m", "p", "a", "r", "e">>,
            <<"e", "v", "a", "l", "u", "a", "t", "e">>, <<"r", "e", "v", "i", "e", "w">>,
            <<"a", "s", "s", "e", "s", "s">>,
            <<"i", "n", "v", "e", "s", "t", "i", "g", "a", "t", "e">>,
            <<"s", "t", "u", "d", "y">>, <<"e", "x", "a", "m", "i", "n", "e">>,
            <<"e", "x", "p", "l", "a", "i", "n">>,
            <<"u", "n", "d", "e", "r", "s", "t", "a", "n", "d">>, <<"l", "e", "a", "r", "n">>,
            <<"t", "e", "a", "c", "h">>, <<"d", "a", "t", "a">>,
            <<"s", "t", "a", "t", "i", "s", "t", "i", "c", "s">>, <<"t", "r", "e", "n", "d">>,
            <<"i", "n", "s", "i", "g", "h", "t">>, <<"r", "e", "p", "o", "r", "t">>,
            <<"s", "u", "r", "v", "e", "y">>>>],
      [intent |-> "Problem Solving",
       kws |-> <<
            <<"f", "i", "x">>, <<"d", "e", "b", "u", "g">>, <<"e", "r", "r", "o", "r">>,
            <<"i", "s", "s", "u", "e">>, <<"p", "r", "o", "b", "l", "e", "m">>,
            <<"s", "o", "l", "v", "e">>, <<"h", "e", "l", "p">>, <<"w", "h", "y">>,
            <<"h", "o", "w", " ", "t", "o">>,
            <<"t", "r", "o", "u", "b", "l", "e", "s", "h", "o", "o", "t">>,
            <<"b", "r", "o", "k", "e", "n">>,
            <<"n", "o", "t", " ", "w", "o", "r", "k", "i", "n", "g">>,
            <<"c", "r", "a", "s", "h">>, <<"b", "u", "g">>,
            <<"o", "p", "t", "i", "m", "i", "z", "e">>, <<"i", "m", "p", "r", "o", "v", "e">>,
            <<"r", "e", "f", "a", "c", "t", "o", "r">>,
            <<"p", "e", "r", "f", "o", "r", "m", "a", "n", "c", "e">>>>],
      [intent |-> "Creative",
       kws |-> <<
            <<"d", "e", "s", "i", "g", "n">>, <<"u", "i">>, <<"u", "x">>,
            <<"l", "o", "g", "o">>, <<"b", "r", "a", "n", "d">>, <<"c", "o", "l", "o", "r">>,
            <<"l", "a", "y", "o", "u", "t">>, <<"m", "o", "c", "k", "u", "p">>,
            <<"w", "i", "r", "e", "f", "r", "a", "m", "e">>,
            <<"p", "r", "o", "t", "o", "t", "y", "p", "e">>,
            <<"a", "n", "i", "m", "a", "t", "i", "o", "n">>,
            <<"i", "l", "l", "u", "s", "t", "r", "a", "t", "i", "o", "n">>,
            <<"i", "m", "a", "g", "e">>, <<"v", "i", "d", "e", "o">>,
            <<"m", "u", "s", "i", "c">>, <<"g", "a", "m", "e">>, <<"i", "d", "e", "a">>,
            <<"b", "r", "a", "i", "n", "s", "t", "o", "r", "m">>,
            <<"c", "r", "e", "a", "t", "i", "v", "e">>,
            <<"i", "n", "n", "o", "v", "a", "t", "e">>>>],
      [intent |-> "Data & Automation",
       kws |-> <<
            <<"a", "u", "t", "o", "m", "a", "t", "e">>,
            <<"a", "u", "t", "o", "m", "a", "t", "i", "o", "n">>,
            <<"w", "o", "r", "k", "f", "l", "o", "w">>,
            <<"p", "i", "p", "e", "l", "i", "n", "e">>, <<"e", "t", "l">>,
            <<"s", "c", "r", "a", "p", "e">>, <<"c", "r", "a", "w", "l">>,
            <<"p", "a", "r", "s", "e">>, <<"e", "x", "t", "r", "a", "c", "t">>,
            <<"t", "r", "a", "n", "s", "f", "o", "r", "m">>, <<"c", "s", "v">>,
            <<"j", "s", "o", "n">>, <<"x", "m", "l">>, <<"e", "x", "c", "e", "l">>,
            <<"s", "p", "r", "e", "a", "d", "s", "h", "e", "e", "t">>,
            <<"d", "a", "s", "h", "b", "o", "a", "r", "d">>, <<"c", "h", "a", "r", "t">>,
            <<"g", "r", "a", "p", "h">>,
            <<"v", "i", "s", "u", "a", "l", "i", "z", "a", "t", "i", "o", "n">>,
            <<"b", "o", "t">>, <<"c", "r", "o", "n">>>>]>>

\* keyword.split(" ").length
KeywordWeight(keyword) == 1 + Cardinality({i \in 1..Len(keyword) : keyword[i] = " "})

RECURSIVE Structurer_Score(_, _)
Structurer_Score(lower, keywords) ==
    IF keywords = <<>> THEN 0
    ELSE (IF Includes(lower, Head(keywords)) THEN KeywordWeight(Head(keywords)) ELSE 0)
         + Structurer_Score(lower, Tail(keywords))

RECURSIVE Structurer_BestMatch_LastWins(_, _, _, _)
Structurer_BestMatch_LastWins(lower, entries, bestMatch, bestScore) ==
    IF entries = <<>> THEN bestMatch
    ELSE LET score == Structurer_Score(lower, Head(entries).kws)
         IN  IF score >= bestScore
             THEN Structurer_BestMatch_LastWins(lower, Tail(entries), Head(entries).intent, score)
             ELSE Structurer_BestMatch_LastWins(lower, Tail(entries), bestMatch, bestScore)

\* the loop over Object.entries(INTENT_PATTERNS), carrying bestMatch and bestScore
RECURSIVE Structurer_BestMatch(_, _, _, _)
Structurer_BestMatch(lower, entries, bestMatch, bestScore) ==
    IF entries = <<>> THEN bestMatch
    ELSE LET score == Structurer_Score(lower, Head(entries).kws)
         IN  IF score > bestScore
             THEN Structurer_BestMatch(lower, Tail(entries), Head(entries).intent, score)
             ELSE Structurer_BestMatch(lower, Tail(entries), bestMatch, bestScore)

Structurer_detectIntent(text) ==
    Structurer_BestMatch(ToLowerCase(text), Structurer_INTENT_PATTERNS, "General", 0)

IsSentenceEnd(c) == c \in {".", "!", "?"}

\* the number of '.', '!' and '?' in a row from position p on
RECURSIVE SentenceEndRun(_, _)
SentenceEndRun(text, p) ==
    IF p <= Len(text) /\ IsSentenceEnd(text[p]) THEN 1 + SentenceEndRun(text, p + 1) ELSE 0

\* text.split(/[.!?]+/)
RECURSIVE SplitSentences(_)
SplitSentences(text) ==
    IF \A i \in 1..Len(text) : ~IsSentenceEnd(text[i]) THEN <<text>>
    ELSE LET i == CHOOSE i \in 1..Len(text) :
                    IsSentenceEnd(text[i]) /\ \A h \in 1..(i - 1) : ~IsSentenceEnd(text[h])
             k == SentenceEndRun(text, i)
         IN  <<SubSeq(text, 1, i - 1)>> \o SplitSentences(SubSeq(text, i + k, Len(text)))

\* sentences.map((s) => s.trim())
TrimAll(sentences) == [i \in 1..Len(sentences) |-> Trim(sentences[i])]

\* the words whose presence makes a sentence a requirement (structurer.ts:83-93)
Structurer_RequirementWords ==
    <<<<"n", "e", "e", "d">>,
      <<"w", "a", "n", "t">>,
      <<"s", "h", "o", "u", "l", "d">>,
      <<"m", "u", "s", "t">>,
      <<"i", "n", "c", "l", "u", "d", "e">>,
      <<"a", "d", "d">>,
      <<"w", "i", "t", "h">>,
      <<"p", "l", "u", "s">>,
      <<"a", "l", "s", "o">>,
      <<"a", "n", "d">>,
      <<"f", "e", "a", "t", "u", "r", "e">>>>

Structurer_extractRequirements(text) ==
    LET sentences == SelectSeq(SplitSentences(text), LAMBDA s : Len(Trim(s)) > 5)
        Mentions(s) == \E k \in 1..Len(Structurer_RequirementWords) :
                          Includes(Trim(ToLowerCase(s)), Structurer_RequirementWords[k])
        requirements == TrimAll(SelectSeq(sentences, Mentions))
    IN  IF Len(requirements) = 0
        THEN SelectSeq(TrimAll(sentences), LAMBDA s : Len(s) > 5)
        ELSE requirements

\* \b at position p: exactly one of the characters before and at p is a
\* word character
IsBoundary(text, p) ==
    LET WordAt(q) == q \in 1..Len(text) /\ IsWordChar(text[q])
    IN  WordAt(p - 1) # WordAt(p)

\* no |don'?t|without|avoid|never
NegationAlts ==
    <<<<"n", "o", " ">>,
      <<"d", "o", "n", "'", "t">>,
      <<"d", "o", "n", "t">>,
      <<"w", "i", "t", "h", "o", "u", "t">>,
      <<"a", "v", "o", "i", "d">>,
      <<"n", "e", "v", "e", "r">>>>

NegationTest_NoBoundaries(s) ==
    \E k \in 1..Len(NegationAlts) : Includes(ToLowerCase(s), NegationAlts[k])

\* /\b(no |don'?t|without|avoid|never)\b/i.test(s)
NegationTest(s) ==
    LET lower == ToLowerCase(s)
    IN  \E k \in 1..Len(NegationAlts) : \E i \in 1..Len(lower) :
            /\ i + Len(NegationAlts[k]) - 1 <= Len(lower)
            /\ SubSeq(lower, i, i + Len(NegationAlts[k]) - 1) = NegationAlts[k]
            /\ IsBoundary(lower, i)
            /\ IsBoundary(lower, i + Len(NegationAlts[k]))

Free == <<"f", "r", "e", "e">>
Simple == <<"s", "i", "m", "p", "l", "e">>
Fast == <<"f", "a", "s", "t">>
Quick == <<"q", "u", "i", "c", "k">>
Secure == <<"s", "e", "c", "u", "r", "e">>
Security == <<"s", "e", "c", "u", "r", "i", "t", "y">>

Structurer_extractConstraints(text) ==
    LET lower == ToLowerCase(text)
    IN  (IF \/ Includes(lower, <<"n", "o", " ">>)
            \/ Includes(lower, <<"d", "o", "n", "'", "t">>)
            \/ Includes(lower, <<"w", "i", "t", "h", "o", "u", "t">>)
         THEN TrimAll(SelectSeq(SplitSentences(text), NegationTest))
         ELSE <<>>)
        \o (IF Includes(lower, Free)
            THEN <<Lit("Must use only free/open-source tools")>> ELSE <<>>)
        \o (IF Includes(lower, Simple)
            THEN <<Lit("Keep the solution simple and straightforward")>> ELSE <<>>)
        \o (IF Includes(lower, Fast) \/ Includes(lower, Quick)
            THEN <<Lit("Optimize for speed and performance")>> ELSE <<>>)
        \o (IF Includes(lower, Secure) \/ Includes(lower, Security)
            THEN <<Lit("Follow security best practices")>> ELSE <<>>)

Structurer_determineOutputFormat(intent, text) ==
    IF intent = "Code Generation"
    THEN IF Includes(ToLowerCase(text), <<"e", "x", "p", "l", "a", "i", "n">>)
         THEN Lit("Code with detailed comments and explanation")
         ELSE Lit("Complete, production-ready code with comments")
    ELSE IF intent = "Writing & Content" THEN Lit("Well-structured written content")
    ELSE IF intent = "Analysis & Research"
    THEN Lit("Detailed analysis with key findings and recommendations")
    ELSE IF intent = "Problem Solving" THEN Lit("Step-by-step solution with explanation")
    ELSE IF intent = "Creative"
    THEN Lit("Creative output with reasoning behind design choices")
    ELSE IF intent = "Data & Automation"
    THEN Lit("Implementation with sample data and usage instructions")
    ELSE Lit("Clear, comprehensive response")

\* String.prototype.length of a text held in pieces
RECURSIVE CharLength(_)
CharLength(text) ==
    IF text = <<>> THEN 0 ELSE Len(Head(text)) + CharLength(Tail(text))

Structurer_calculateQualityScore_Penalty(prompt) ==
    LET score == 40
                 + (IF CharLength(prompt.fullPrompt) > 200 THEN 10 ELSE 0)
                 + (IF CharLength(prompt.fullPrompt) > 400 THEN 10 ELSE 0)
                 + (IF CharLength(prompt.fullPrompt) > 600 THEN 5 ELSE 0)
                 + (IF Len(prompt.requirements) > 0 THEN 10 ELSE 0)
                 + (IF Len(prompt.requirements) > 2 THEN 5 ELSE 0)
                 + (IF Len(prompt.requirements) > 4 THEN 5 ELSE 0)
                 - (IF Len(prompt.constraints) > 1 THEN 5 ELSE 0)
                 + (IF prompt.intent # "General" THEN 10 ELSE 0)
    IN  IF score < 100 THEN score ELSE 100

Structurer_calculateQualityScore(prompt) ==
    LET score == 40
                 + (IF CharLength(prompt.fullPrompt) > 200 THEN 10 ELSE 0)
                 + (IF CharLength(prompt.fullPrompt) > 400 THEN 10 ELSE 0)
                 + (IF CharLength(prompt.fullPrompt) > 600 THEN 5 ELSE 0)
                 + (IF Len(prompt.requirements) > 0 THEN 10 ELSE 0)
                 + (IF Len(prompt.requirements) > 2 THEN 5 ELSE 0)
                 + (IF Len(prompt.requirements) > 4 THEN 5 ELSE 0)
                 + (IF Len(prompt.constraints) > 0 THEN 5 ELSE 0)
                 + (IF prompt.intent # "General" THEN 10 ELSE 0)
    IN  IF score < 100 THEN score ELSE 100

Structurer_Guidelines ==
    Lit("## Guidelines\n- Be thorough and detailed in your response\n- Follow best practices and conventions\n- Provide explanations for important decisions\n- If anything is unclear, state your assumptions")

Structurer_structurePrompt_EmptySections(rawText, conversationHistory) ==
    LET intent == Structurer_detectIntent(rawText)
        requirements == Structurer_extractRequirements(rawText)
        constraints == Structurer_extractConstraints(rawText)
        outputFormat == Structurer_determineOutputFormat(intent, rawText)
        pieces == SplitWhitespace(rawText)
        words == Join(SubSeq(pieces, 1, IF Len(pieces) < 8 THEN Len(pieces) ELSE 8), <<" ">>)
        title == IF Len(words) > 50 THEN SubSeq(words, 1, 47) \o Lit("...") ELSE words
        context == IF conversationHistory # <<>>
                   THEN Lit("Based on our conversation, the user wants: ") \o rawText
                   ELSE rawText
        sections ==
            <<Lit("## Task\n") \o context>>
            \o <<Lit("## Requirements\n") \o Bullets(requirements, Lit("- "), Lit("\n"))>>
            \o <<Lit("## Constraints\n") \o Bullets(constraints, Lit("- "), Lit("\n"))>>
            \o <<Lit("## Expected Output\n") \o outputFormat>>
            \o <<Structurer_Guidelines>>
        result == [title |-> title, intent |-> intent, context |-> context,
                   requirements |-> requirements, constraints |-> constraints,
                   outputFormat |-> outputFormat,
                   fullPrompt |-> Join(sections, Lit("\n\n")), qualityScore |-> 0]
    IN  [result EXCEPT !.qualityScore = Structurer_calculateQualityScore(result)]

\* a structurePrompt that keeps something of the calls before it
Structurer_structurePrompt_CarriesOver(rawText, conversationHistory) ==
    LET first == DOMAIN results = {}
        intent == Structurer_detectIntent(rawText)
        requirements == Structurer_extractRequirements(rawText)
        constraints == Structurer_extractConstraints(rawText)
    IN  [title |-> rawText, intent |-> intent, context |-> rawText,
         requirements |-> IF first THEN requirements ELSE requirements \o requirements,
         constraints |-> constraints,
         outputFormat |-> Structurer_determineOutputFormat(intent, rawText),
         fullPrompt |-> rawText, qualityScore |-> 0]

\* conversationHistory is a text; the empty text stands for undefined too
Structurer_structurePrompt(rawText, conversationHistory) ==
    LET intent == Structurer_detectIntent(rawText)
        requirements == Structurer_extractRequirements(rawText)
        constraints == Structurer_extractConstraints(rawText)
        outputFormat == Structurer_determineOutputFormat(intent, rawText)
        pieces == SplitWhitespace(rawText)
        words == Join(SubSeq(pieces, 1, IF Len(pieces) < 8 THEN Len(pieces) ELSE 8), <<" ">>)
        title == IF Len(words) > 50 THEN SubSeq(words, 1, 47) \o Lit("...") ELSE words
        context == IF conversationHistory # <<>>
                   THEN Lit("Based on our conversation, the user wants: ") \o rawText
                   ELSE rawText
        sections ==
            <<Lit("## Task\n") \o context>>
            \o (IF Len(requirements) > 0
                THEN <<Lit("## Requirements\n") \o Bullets(requirements, Lit("- "), Lit("\n"))>>
                ELSE <<>>)
            \o (IF Len(constraints) > 0
                THEN <<Lit("## Constraints\n") \o Bullets(constraints, Lit("- "), Lit("\n"))>>
                ELSE <<>>)
            \o <<Lit("## Expected Output\n") \o outputFormat>>
            \o <<Structurer_Guidelines>>
        result == [title |-> title, intent |-> intent, context |-> context,
                   requirements |-> requirements, constraints |-> constraints,
                   outputFormat |-> outputFormat,
                   fullPrompt |-> Join(sections, Lit("\n\n")), qualityScore |-> 0]
    IN  [result EXCEPT !.qualityScore = Structurer_calculateQualityScore(result)]

(***************************************************************************)
(* unnamed/part_002, lines 183-368: the structuring boundary without the   *)
(* adapter: its engine functions                                           *)
(***************************************************************************)
StructureRoute_INTENT_PATTERNS ==
    <<[intent |-> "Code Generation",
       kws |-> <<
            <<"c", "o", "d", "e">>, <<"p", "r", "o", "g", "r", "a", "m">>,
            <<"f", "u", "n", "c", "t", "i", "o", "n">>, <<"a", "p", "i">>, <<"a", "p", "p">>,
            <<"a", "p", "p", "l", "i", "c", "a", "t", "i", "o", "n">>,
            <<"b", "u", "i", "l", "d">>, <<"c", "r", "e", "a", "t", "e">>,
            <<"d", "e", "v", "e", "l", "o", "p">>,
            <<"i", "m", "p", "l", "e", "m", "e", "n", "t">>,
            <<"w", "r", "i", "t", "e", " ", "c", "o", "d", "e">>,
            <<"s", "c", "r", "i", "p", "t">>, <<"w", "e", "b", "s", "i", "t", "e">>,
            <<"w", "e", "b">>, <<"d", "a", "t", "a", "b", "a", "s", "e">>,
            <<"b", "a", "c", "k", "e", "n", "d">>, <<"f", "r", "o", "n", "t", "e", "n", "d">>,
            <<"f", "u", "l", "l", " ", "s", "t", "a", "c", "k">>,
            <<"r", "e", "s", "t", " ", "a", "p", "i">>,
            <<"e", "n", "d", "p", "o", "i", "n", "t">>,
            <<"c", "o", "m", "p", "o", "n", "e", "n", "t">>, <<"c", "l", "a", "s", "s">>,
            <<"m", "o", "d", "u", "l", "e">>, <<"l", "i", "b", "r", "a", "r", "y">>,
            <<"c", "r", "u", "d">>,
            <<"a", "u", "t", "h", "e", "n", "t", "i", "c", "a", "t", "i", "o", "n">>,
            <<"l", "o", "g", "i", "n">>, <<"d", "e", "p", "l", "o", "y">>,
            <<"r", "e", "a", "c", "t">>, <<"n", "e", "x", "t">>,
            <<"p", "y", "t", "h", "o", "n">>,
            <<"j", "a", "v", "a", "s", "c", "r", "i", "p", "t">>,
            <<"t", "y", "p", "e", "s", "c", "r", "i", "p", "t">>, <<"n", "o", "d", "e">>,
            <<"e", "x", "p", "r", "e", "s", "s">>, <<"h", "t", "m", "l">>, <<"c", "s", "s">>,
            <<"s", "q", "l">>, <<"m", "o", "n", "g", "o", "d", "b">>,
            <<"d", "o", "c", "k", "e", "r">>>>],
      [intent |-> "Writing & Content",
       kws |-> <<
            <<"w", "r", "i", "t", "e">>, <<"e", "s", "s", "a", "y">>,
            <<"a", "r", "t", "i", "c", "l", "e">>, <<"b", "l", "o", "g">>,
            <<"e", "m", "a", "i", "l">>, <<"l", "e", "t", "t", "e", "r">>,
            <<"r", "e", "p", "o", "r", "t">>,
            <<"d", "o", "c", "u", "m", "e", "n", "t", "a", "t", "i", "o", "n">>,
            <<"s", "t", "o", "r", "y">>, <<"s", "p", "e", "e", "c", "h">>,
            <<"p", "r", "e", "s", "e", "n", "t", "a", "t", "i", "o", "n">>,
            <<"p", "r", "o", "p", "o", "s", "a", "l">>, <<"r", "e", "s", "u", "m", "e">>,
            <<"c", "o", "n", "t", "e", "n", "t">>,
            <<"s", "o", "c", "i", "a", "l", " ", "m", "e", "d", "i", "a">>,
            <<"s", "u", "m", "m", "a", "r", "y">>,
            <<"t", "r", "a", "n", "s", "l", "a", "t", "e">>>>],
      [intent |-> "Analysis & Research",
       kws |-> <<
            <<"a", "n", "a", "l", "y", "z", "e">>, <<"a", "n", "a", "l", "y", "s", "i", "s">>,
            <<"r", "e", "s", "e", "a", "r", "c", "h">>, <<"c", "o", "m", "p", "a", "r", "e">>,
            <<"e", "v", "a", "l", "u", "a", "t", "e">>, <<"r", "e", "v", "i", "e", "w">>,
            <<"i", "n", "v", "e", "s", "t", "i", "g", "a", "t", "e">>,
            <<"e", "x", "p", "l", "a", "i", "n">>,
            <<"u", "n", "d", "e", "r", "s", "t", "a", "n", "d">>, <<"d", "a", "t", "a">>,
            <<"s", "t", "a", "t", "i", "s", "t", "i", "c", "s">>, <<"t", "r", "e", "n", "d">>>>],
      [intent |-> "Problem Solving",
       kws |-> <<
            <<"f", "i", "x">>, <<"d", "e", "b", "u", "g">>, <<"e", "r", "r", "o", "r">>,
            <<"i", "s", "s", "u", "e">>, <<"p", "r", "o", "b", "l", "e", "m">>,
            <<"s", "o", "l", "v", "e">>, <<"h", "e", "l", "p">>,
            <<"t", "r", "o", "u", "b", "l", "e", "s", "h", "o", "o", "t">>,
            <<"b", "r", "o", "k", "e", "n">>,
            <<"n", "o", "t", " ", "w", "o", "r", "k", "i", "n", "g">>,
            <<"c", "r", "a", "s", "h">>, <<"b", "u", "g">>,
            <<"o", "p", "t", "i", "m", "i", "z", "e">>, <<"i", "m", "p", "r", "o", "v", "e">>,
            <<"r", "e", "f", "a", "c", "t", "o", "r">>>>],
      [intent |-> "Creative",
       kws |-> <<
            <<"d", "e", "s", "i", "g", "n">>, <<"u", "i">>, <<"u", "x">>,
            <<"l", "o", "g", "o">>, <<"b", "r", "a", "n", "d">>,
            <<"l", "a", "y", "o", "u", "t">>, <<"m", "o", "c", "k", "u", "p">>,
            <<"a", "n", "i", "m", "a", "t", "i", "o", "n">>, <<"g", "a", "m", "e">>,
            <<"i", "d", "e", "a">>, <<"b", "r", "a", "i", "n", "s", "t", "o", "r", "m">>,
            <<"c", "r", "e", "a", "t", "i", "v", "e">>>>],
      [intent |-> "Data & Automation",
       kws |-> <<
            <<"a", "u", "t", "o", "m", "a", "t", "e">>,
            <<"a", "u", "t", "o", "m", "a", "t", "i", "o", "n">>,
            <<"w", "o", "r", "k", "f", "l", "o", "w">>,
            <<"p", "i", "p", "e", "l", "i", "n", "e">>, <<"s", "c", "r", "a", "p", "e">>,
            <<"p", "a", "r", "s", "e">>, <<"e", "x", "t", "r", "a", "c", "t">>,
            <<"c", "s", "v">>, <<"j", "s", "o", "n">>, <<"e", "x", "c", "e", "l">>,
            <<"d", "a", "s", "h", "b", "o", "a", "r", "d">>, <<"c", "h", "a", "r", "t">>,
            <<"b", "o", "t">>>>]>>

RECURSIVE StructureRoute_Score(_, _)
StructureRoute_Score(lower, keywords) ==
    IF keywords = <<>> THEN 0
    ELSE (IF Includes(lower, Head(keywords)) THEN KeywordWeight(Head(keywords)) ELSE 0)
         + StructureRoute_Score(lower, Tail(keywords))

RECURSIVE StructureRoute_BestMatch(_, _, _, _)
StructureRoute_BestMatch(lower, entries, bestMatch, bestScore) ==
    IF entries = <<>> THEN bestMatch
    ELSE LET score == StructureRoute_Score(lower, Head(entries).kws)
         IN  IF score > bestScore
             THEN StructureRoute_BestMatch(lower, Tail(entries), Head(entries).intent, score)
             ELSE StructureRoute_BestMatch(lower, Tail(entries), bestMatch, bestScore)

StructureRoute_detectIntent(text) ==
    StructureRoute_BestMatch(ToLowerCase(text), StructureRoute_INTENT_PATTERNS, "General", 0)

\* need|want|should|must|include|add|with|plus|also|feature
StructureRoute_RequirementWords ==
    <<<<"n", "e", "e", "d">>,
      <<"w", "a", "n", "t">>,
      <<"s", "h", "o", "u", "l", "d">>,
      <<"m", "u", "s", "t">>,
      <<"i", "n", "c", "l", "u", "d", "e">>,
      <<"a", "d", "d">>,
      <<"w", "i", "t", "h">>,
      <<"p", "l", "u", "s">>,
      <<"a", "l", "s", "o">>,
      <<"f", "e", "a", "t", "u", "r", "e">>>>

StructureRoute_extractRequirements(text) ==
    LET sentences == SelectSeq(SplitSentences(text), LAMBDA s : Len(Trim(s)) > 5)
        Mentions(s) == WordPatternTest(Trim(ToLowerCase(s)), StructureRoute_RequirementWords)
        requirements == TrimAll(SelectSeq(sentences, Mentions))
    IN  IF Len(requirements) > 0
        THEN requirements
        ELSE SelectSeq(TrimAll(sentences), LAMBDA s : Len(s) > 5)

StructureRoute_extractConstraints(text) ==
    LET lower == ToLowerCase(text)
        sentences == SplitSentences(text)
    IN  TrimAll(SelectSeq(sentences, LAMBDA s : NegationTest(s) /\ Len(Trim(s)) > 5))
        \o (IF Includes(lower, Free)
            THEN <<Lit("Must use only free/open-source tools")>> ELSE <<>>)
        \o (IF Includes(lower, Simple)
            THEN <<Lit("Keep the solution simple and straightforward")>> ELSE <<>>)
        \o (IF Includes(lower, Fast) \/ Includes(lower, Quick)
            THEN <<Lit("Optimize for speed and performance")>> ELSE <<>>)
        \o (IF Includes(lower, Secure)
            THEN <<Lit("Follow security best practices")>> ELSE <<>>)

StructureRoute_calculateQuality(text, requirements, constraints, intent) ==
    LET score == 40
                 + (IF CharLength(text) > 200 THEN 10 ELSE 0)
                 + (IF CharLength(text) > 400 THEN 10 ELSE 0)
                 + (IF CharLength(text) > 600 THEN 5 ELSE 0)
                 + (IF Len(requirements) > 0 THEN 10 ELSE 0)
                 + (IF Len(requirements) > 2 THEN 5 ELSE 0)
                 + (IF Len(requirements) > 4 THEN 5 ELSE 0)
                 + (IF Len(constraints) > 0 THEN 5 ELSE 0)
                 + (IF intent # "General" THEN 10 ELSE 0)
    IN  IF score < 100 THEN score ELSE 100

(***************************************************************************)
(* unnamed/part_004, lines 59-161: SpeechManager.  recognition is the      *)
(* browser's recognizer as the manager's calls and the browser's events    *)
(* move it: "inactive", "starting" (start() called, onstart not yet        *)
(* fired), "running", "stopping" (stop() called, onend not yet fired).     *)
(* timers counts the pending setTimeout(() => this.start(), 100) of onend. *)
(* asked is the client's latest call, kept for the properties.             *)
(***************************************************************************)
MaxTimers == 2

SpeechManager_New ==
    [isListening |-> FALSE, shouldRestart |-> FALSE, recognition |-> "inactive",
     timers |-> 0, asked |-> "none"]

\* start(): recognition.start() throws on a recognizer already started, and
\* the catch leaves shouldRestart set
SpeechManager_start(sm) ==
    IF sm.isListening THEN sm
    ELSE [sm EXCEPT !.shouldRestart = TRUE,
                    !.recognition = IF @ = "inactive" THEN "starting" ELSE @]

SpeechManager_stop(sm) ==
    [sm EXCEPT !.shouldRestart = FALSE,
               !.recognition = IF sm.isListening /\ @ = "running" THEN "stopping" ELSE @]

\* recognition.onstart, as the recognizer begins to capture
SpeechManager_onstart(sm) ==
    [sm EXCEPT !.isListening = TRUE, !.recognition = "running"]

\* recognition.onend, as the recognizer becomes inactive
SpeechManager_onend(sm) ==
    [sm EXCEPT !.isListening = FALSE, !.recognition = "inactive",
               !.timers = IF sm.shouldRestart THEN @ + 1 ELSE @]

\* the timer of onend fires
SpeechManager_restart(sm) == SpeechManager_start([sm EXCEPT !.timers = @ - 1])

(***************************************************************************)
(* lib/wake-word.ts: WakeWordDetector.  start() creates a recognizer each  *)
(* time; recs holds the state of every recognizer created so far and       *)
(* recognition the index of the current one, 0 for null.  restartTimers    *)
(* and cooldownTimers count the pending setTimeout callbacks.  woke tells  *)
(* whether the latest onWake call came while listening was set.  A         *)
(* recognizer is "inactive", "starting", "running", "stopping" (stopped    *)
(* while running: it may still deliver results) or "cancelled" (stopped    *)
(* before it ran: it only ends).                                           *)
(***************************************************************************)
MaxRecognizers == 2

WakeWordDetector_New ==
    [listening |-> FALSE, cooldown |-> FALSE, recognition |-> 0, recs |-> <<>>,
     restartTimers |-> 0, cooldownTimers |-> 0, woke |-> "no"]

WakeWordDetector_start(wd) ==
    IF wd.listening THEN wd
    ELSE [wd EXCEPT !.recs = Append(@, "starting"), !.recognition = Len(wd.recs) + 1,
                    !.listening = TRUE]

WakeWordDetector_stop(wd) ==
    [wd EXCEPT !.listening = FALSE, !.recognition = 0,
               !.recs = IF wd.recognition = 0 THEN @
                        ELSE IF @[wd.recognition] = "running"
                        THEN [@ EXCEPT ![wd.recognition] = "stopping"]
                        ELSE IF @[wd.recognition] = "starting"
                        THEN [@ EXCEPT ![wd.recognition] = "cancelled"]
                        ELSE @]

\* the wake phrases of lines 37-42, after toLowerCase().trim()
WakePhrases ==
    {Lit("hey listen"), Lit("hey lisen"), Lit("hey lisn"), Lit("heyy listen"),
     Lit("a listen"), Lit("hey lesson")}

\* recognition.onresult for one result whose transcript, lower-cased and
\* trimmed, is given; stops tells whether the onWake callback calls stop()
WakeWordDetector_onresult(wd, transcript, stops) ==
    IF ~wd.cooldown /\ \E phrase \in WakePhrases : Includes(transcript, phrase)
    THEN LET woken == [wd EXCEPT !.cooldown = TRUE,
                                 !.woke = IF wd.listening THEN "listening" ELSE "stopped",
                                 !.cooldownTimers = @ + 1]
         IN  IF stops THEN WakeWordDetector_stop(woken) ELSE woken
    ELSE wd

\* recognition.onend of recognizer i, as it becomes inactive; onerror is the
\* same handler with a longer delay and leaves the recognizer to its onend
WakeWordDetector_onend(wd, i) ==
    [wd EXCEPT !.recs[i] = "inactive",
               !.restartTimers = IF wd.listening THEN @ + 1 ELSE @]

WakeWordDetector_onerror(wd) ==
    [wd EXCEPT !.restartTimers = IF wd.listening THEN @ + 1 ELSE @]

\* a restart timer fires: this.recognition?.start(), which throws on a
\* recognizer already started
WakeWordDetector_restart(wd) ==
    [wd EXCEPT !.restartTimers = @ - 1,
               !.recs = IF wd.recognition # 0 /\ @[wd.recognition] = "inactive"
                        THEN [@ EXCEPT ![wd.recognition] = "starting"]
                        ELSE @]

\* before the component is mounted: no manager has been asked anything
NoPage == [status |-> "idle"]

UiIdle ==
    /\ speech = SpeechManager_New
    /\ wake = WakeWordDetector_New
    /\ page = NoPage

(***************************************************************************)
(* The calls a client makes on one ConversationManager                     *)
(***************************************************************************)
\* what page.tsx passes as transcript: trimmed and not empty (page.tsx:217-221)
Transcripts == {Hi, EightWords, Words(16)}

\* what structurePrompt(...).intent can be, as far as the template lookup
\* tells them apart: a key of the table, General, and a label that is no key
DetectedIntents == {"Code Generation", "General", "Creative"}

\* what is recorded as an assistant turn from outside processUserInput
AssistantContents ==
    {getWelcomeMessage} \cup Range(ConverseRoute_CLARIFYING_TEMPLATES["General"])

NoResult == [response |-> Null, shouldStructure |-> FALSE]

CallAddUserMessage(content) ==
    /\ Len(state.messages) < MaxMessages
    /\ state' = addUserMessage(state, content)
    /\ lastOp' = [name |-> "addUserMessage", args |-> <<content>>,
                  wasComplete |-> state.isComplete]
    /\ lastResult' = NoResult
    /\ UNCHANGED <<routeVars, engineVars, uiVars>>

CallAddAssistantMessage(content) ==
    /\ Len(state.messages) < MaxMessages
    /\ state' = addAssistantMessage(state, content)
    /\ lastOp' = [name |-> "addAssistantMessage", args |-> <<content>>,
                  wasComplete |-> state.isComplete]
    /\ lastResult' = NoResult
    /\ UNCHANGED <<routeVars, engineVars, uiVars>>

CallProcessUserInput(transcript, detectedIntent) ==
    /\ Len(state.messages) + 2 <= MaxMessages
    /\ LET out == processUserInput(state, transcript, detectedIntent)
       IN  /\ state' = out.state
           /\ lastResult' = out.result
    /\ lastOp' = [name |-> "processUserInput", args |-> <<transcript, detectedIntent>>,
                  wasComplete |-> state.isComplete]
    /\ UNCHANGED <<routeVars, engineVars, uiVars>>

\* page.tsx, a finished utterance answered by /api/converse: the history sent
\* is getMessages(), then the transcript and the reply are recorded
ConverseTurn(transcript) ==
    /\ Len(state.messages) + 2 <= MaxMessages
    /\ LET out == ConverseRoute_POST(transcript, state.messages)
       IN  /\ out.status = 200
           /\ state' = addAssistantMessage(addUserMessage(state, transcript),
                                           out.data.response)
           /\ lastResult' = [response |-> out.data.response,
                             shouldStructure |-> out.data.shouldStructure]
    /\ lastOp' = [name |-> "converse", args |-> <<transcript>>,
                  wasComplete |-> state.isComplete]
    /\ UNCHANGED <<routeVars, engineVars, uiVars>>

CallReset ==
    /\ state' = reset(state)
    /\ lastOp' = [name |-> "reset", args |-> <<Len(state.messages)>>,
                  wasComplete |-> state.isComplete]
    /\ lastResult' = NoResult
    /\ UNCHANGED <<routeVars, engineVars, uiVars>>

NoOutcome == [kind |-> "notCalled"]
NoResponse == [status |-> 0]

RouteIdle ==
    /\ request = [route |-> "none"]
    /\ pc = "idle"
    /\ settled = NoOutcome
    /\ response = NoResponse
    /\ committed = <<>>

NoCall == [fn |-> "none"]
NoReturn == [kind |-> "none"]
NoResults == <<>>

EngineIdle ==
    /\ call = NoCall
    /\ returned = NoReturn

Init ==
    /\ state = FreshState
    /\ lastOp = [name |-> "constructor", args |-> <<>>, wasComplete |-> FALSE]
    /\ lastResult = NoResult
    /\ RouteIdle
    /\ EngineIdle
    /\ results = NoResults
    /\ UiIdle

Next ==
    \/ \E content \in Transcripts : CallAddUserMessage(content)
    \/ \E content \in AssistantContents : CallAddAssistantMessage(content)
    \/ \E transcript \in Transcripts, detectedIntent \in DetectedIntents :
          CallProcessUserInput(transcript, detectedIntent)
    \/ \E transcript \in Transcripts : ConverseTurn(transcript)
    \/ CallReset

Spec == Init /\ [][Next]_vars

(***************************************************************************)
(* The boundary routes, one request at a time.  A handler runs to its      *)
(* return, or to the await of callOpenRouter and from there to its return. *)
(***************************************************************************)
BoundedSeq(S, n) == UNION {[1..k -> S] : k \in 0..n}

Credentials == {<<" ">>, <<"s", "k">>}

ConverseHistoryMessages ==
    {UserMessage(Hi)}
        \cup {AssistantMessage(q) : q \in Range(Part000_CLARIFYING_TEMPLATES["General"])}

ConverseBodies ==
    LET transcripts == {<<>>, <<" ">>, Hi, WriteCode, Words(16)}
        histories == BoundedSeq(ConverseHistoryMessages, MaxHistory)
    IN  [route : {"converse"}, conversationHistory : histories]
        \cup [route : {"converse"}, transcript : transcripts,
              conversationHistory : histories]
        \cup [route : {"converse"}, transcript : transcripts,
              conversationHistory : histories, apiKey : Credentials]

ConverseOutcomes ==
    {[kind |-> "transportError"], [kind |-> "httpError"], [kind |-> "bodyNotJson"],
     [kind |-> "ok", content |-> NoContent]}
        \cup {[kind |-> "ok", content |-> [kind |-> "text", ready |-> r, text |-> t]] :
                r \in BOOLEAN, t \in {<<>>, Lit("Which language do you prefer?")}}

\* returns without awaiting: 400, or the rule-based reply when no credential
Part000_POST(req) ==
    /\ pc = "idle"
    /\ request' = req
    /\ settled' = NoOutcome
    /\ IF BlankTranscript(req)
       THEN /\ response' = [status |-> 400, error |-> Lit("Transcript is required")]
            /\ committed' = <<>>
            /\ pc' = "done"
       ELSE IF HasCredential(req)
       THEN /\ response' = NoResponse
            /\ committed' = <<>>
            /\ pc' = "awaitAdapter"
       ELSE /\ response' = Part000_RuleBased(req)
            /\ committed' = <<"fallback">>
            /\ pc' = "done"
    /\ UNCHANGED <<cmVars, engineVars, uiVars>>

Part000_POST_Resume(result) ==
    /\ pc = "awaitAdapter"
    /\ request.route = "converse"
    /\ settled' = result
    /\ LET after == Part000_AfterAdapter(request, result)
       IN  /\ response' = after.response
           /\ committed' = committed \o after.committed
    /\ pc' = "done"
    /\ UNCHANGED <<request, cmVars, engineVars, uiVars>>

Llama == <<"L", "l", "a", "m", "a">>
LowerClaude == <<"c", "l", "a", "u", "d", "e">>
CodeGeneration == <<"C", "o", "d", "e", " ", "G", "e", "n", "e", "r", "a", "t", "i", "o", "n">>

\* what the hosted model is asked to return: one rendering per target
AdapterFormats ==
    <<[llmName |-> Claude, description |-> Lit("XML tags + thinking"),
       formattedPrompt |-> Lit("<task>...</task>")],
      [llmName |-> Gemini, description |-> Lit("Markdown + grounding"),
       formattedPrompt |-> Lit("# Task ...")],
      [llmName |-> ChatGPT, description |-> Lit("System/User split"),
       formattedPrompt |-> Lit("[System] ...")],
      [llmName |-> DeepSeek, description |-> Lit("Chain-of-thought"),
       formattedPrompt |-> Lit("Think step by step ...")],
      [llmName |-> Grok, description |-> Lit("Concise & direct"),
       formattedPrompt |-> Lit("...")]>>

FormatPrompts ==
    {[context |-> <<>>],
     [context |-> WriteCode],
     [context |-> WriteCode, requirements |-> <<Lit("REST API"), Lit("authentication")>>,
      constraints |-> <<Lit("paid services")>>,
      outputFormat |-> Lit("Working code with comments"), intent |-> CodeGeneration]}

FormatBodies ==
    LET targets == {LowerClaude, Grok, Llama}
    IN  {[route |-> "format"]}
        \cup [route : {"format"}, prompt : FormatPrompts]
        \cup [route : {"format"}, prompt : FormatPrompts, targetLLM : targets]
        \cup [route : {"format"}, prompt : FormatPrompts, apiKey : Credentials]
        \cup [route : {"format"}, prompt : FormatPrompts, targetLLM : targets,
              apiKey : Credentials]

FormatOutcomes ==
    {[kind |-> "transportError"], [kind |-> "httpError"], [kind |-> "bodyNotJson"],
     [kind |-> "ok", content |-> NoContent],
     [kind |-> "ok", content |-> [match |-> "none", parsed |-> <<>>]],
     [kind |-> "ok", content |-> [match |-> "malformed", parsed |-> <<>>]],
     [kind |-> "ok", content |-> [match |-> "array", parsed |-> <<>>]],
     [kind |-> "ok", content |-> [match |-> "array", parsed |-> AdapterFormats]],
     [kind |-> "ok", content |-> [match |-> "array",
                                  parsed |-> <<[description |-> Lit("no name")]>>]]}

NeedRestApi ==
    <<"I", " ", "n", "e", "e", "d", " ", "a", " ", "R", "E", "S", "T", " ", "A", "P", "I", ",", " ", "w", "i">>
        \o <<"t", "h", "o", "u", "t", " ", "p", "a", "i", "d", " ", "s", "e", "r", "v", "i", "c", "e", "s", ".">>

StructureBodies ==
    LET transcripts == {<<>>, <<" ">>, Hi, WriteCode, NeedRestApi}
    IN  {[route |-> "structure"]}
        \cup [route : {"structure"}, transcript : transcripts]
        \cup [route : {"structure"}, transcript : transcripts, apiKey : Credentials]

\* what the hosted model is asked to return: the structured prompt
AdapterPrompt ==
    [title |-> Lit("REST API"), intent |-> CodeGeneration,
     context |-> Lit("Build a REST API"),
     requirements |-> <<Lit("REST API")>>, constraints |-> <<Lit("paid services")>>,
     outputFormat |-> Lit("Working code"),
     fullPrompt |-> Lit("## Task\nBuild a REST API"), qualityScore |-> 75]

StructureOutcomes ==
    {[kind |-> "transportError"], [kind |-> "httpError"], [kind |-> "bodyNotJson"],
     [kind |-> "ok", content |-> NoContent],
     [kind |-> "ok", content |-> [match |-> "none", parsed |-> <<>>]],
     [kind |-> "ok", content |-> [match |-> "malformed", parsed |-> <<>>]],
     [kind |-> "ok", content |-> [match |-> "object", parsed |-> AdapterPrompt]],
     [kind |-> "ok", content |-> [match |-> "object",
                                  parsed |-> [title |-> <<>>, qualityScore |-> 0]]],
     [kind |-> "ok", content |-> [match |-> "object", parsed |-> [qualityScore |-> 150]]]}

\* returns without awaiting: 400, or the rule-based reply when no credential
Part002_POST(req) ==
    /\ pc = "idle"
    /\ request' = req
    /\ settled' = NoOutcome
    /\ IF BlankTranscript(req)
       THEN /\ response' = [status |-> 400, error |-> Lit("Transcript is required")]
            /\ committed' = <<>>
            /\ pc' = "done"
       ELSE IF HasCredential(req)
       THEN /\ response' = NoResponse
            /\ committed' = <<>>
            /\ pc' = "awaitAdapter"
       ELSE /\ response' = Part002_RuleBased(req)
            /\ committed' = <<"fallback">>
            /\ pc' = "done"
    /\ UNCHANGED <<cmVars, engineVars, uiVars>>

Part002_POST_Resume(result) ==
    /\ pc = "awaitAdapter"
    /\ request.route = "structure"
    /\ settled' = result
    /\ LET after == Part002_AfterAdapter(request, result)
       IN  /\ response' = after.response
           /\ committed' = committed \o after.committed
    /\ pc' = "done"
    /\ UNCHANGED <<request, cmVars, engineVars, uiVars>>

\* returns without awaiting: 400, or the rule-based reply when no credential
FormatRoute_POST(req) ==
    /\ pc = "idle"
    /\ request' = req
    /\ settled' = NoOutcome
    /\ IF FormatRoute_Invalid(req)
       THEN /\ response' = [status |-> 400, error |-> Lit("Prompt data is required")]
            /\ committed' = <<>>
            /\ pc' = "done"
       ELSE IF HasCredential(req)
       THEN /\ response' = NoResponse
            /\ committed' = <<>>
            /\ pc' = "awaitAdapter"
       ELSE /\ response' = FormatRoute_RuleBased(req)
            /\ committed' = <<"fallback">>
            /\ pc' = "done"
    /\ UNCHANGED <<cmVars, engineVars, uiVars>>

FormatRoute_POST_Resume(result) ==
    /\ pc = "awaitAdapter"
    /\ request.route = "format"
    /\ settled' = result
    /\ LET after == FormatRoute_AfterAdapter(request, result)
       IN  /\ response' = after.response
           /\ committed' = committed \o after.committed
    /\ pc' = "done"
    /\ UNCHANGED <<request, cmVars, engineVars, uiVars>>

\* the response has been sent; the route waits for the next request
ResponseSent ==
    /\ pc = "done"
    /\ request' = [route |-> "none"]
    /\ pc' = "idle"
    /\ settled' = NoOutcome
    /\ response' = NoResponse
    /\ committed' = <<>>
    /\ UNCHANGED <<cmVars, engineVars, uiVars>>

RouteInit ==
    /\ state = FreshState
    /\ lastOp = [name |-> "constructor", args |-> <<>>, wasComplete |-> FALSE]
    /\ lastResult = NoResult
    /\ RouteIdle
    /\ EngineIdle
    /\ results = NoResults
    /\ UiIdle

RouteNext ==
    \/ \E req \in ConverseBodies : Part000_POST(req)
    \/ \E result \in ConverseOutcomes : Part000_POST_Resume(result)
    \/ \E req \in FormatBodies : FormatRoute_POST(req)
    \/ \E result \in FormatOutcomes : FormatRoute_POST_Resume(result)
    \/ \E req \in StructureBodies : Part002_POST(req)
    \/ \E result \in StructureOutcomes : Part002_POST_Resume(result)
    \/ ResponseSent

RouteSpec == RouteInit /\ [][RouteNext]_vars

(***************************************************************************)
(* The engine functions, one call at a time: a caller passes arguments,    *)
(* the function returns, and the caller takes the value.                   *)
(***************************************************************************)
MaxSentences == 2
MaxItems == 5

FixBugs == <<"F", "i", "x", " ", "b", "u", "g", "s">>
NeedLogin == <<"I", " ", "n", "e", "e", "d", " ", "a", " ", "l", "o", "g", "i", "n", " ", "p", "a", "g", "e">>
AvoidPaid == <<"A", "v", "o", "i", "d", " ", "p", "a", "i", "d", " ", "t", "o", "o", "l", "s">>
NoAds == <<"n", "o", " ", "a", "d", "s">>
MakeItFree == <<"m", "a", "k", "e", " ", "i", "t", " ", "f", "r", "e", "e">>
Ok == <<"o", "k">>
HowToPostEssay == <<"h", "o", "w", " ", "t", "o", " ", "p", "o", "s", "t", " ", "e", "s", "s", "a", "y">>

SentencePieces ==
    {FixBugs, NeedLogin, AvoidPaid, NoAds, MakeItFree, Ok, HowToPostEssay,
     WriteCode}

\* sentences spoken one after the other, each closed by a full stop
RECURSIVE Paragraph(_)
Paragraph(sentences) ==
    IF sentences = <<>> THEN <<>>
    ELSE IF Len(sentences) = 1 THEN Head(sentences)
    ELSE Head(sentences) \o <<".", " ">> \o Paragraph(Tail(sentences))

\* twenty words and more
TwentyWords == Words(20)
TwentyWordsFree == Words(19) \o <<" ">> \o Free
TwentyWordsPiano == Words(18) \o <<" ", "p", "i", "a", "n", "o", " ", "x">>
TwentyWordsNever == Words(17) \o <<".", " ", "n", "e", "v", "e", "r", " ", "x", " ", "y">>

EngineTexts ==
    {Paragraph(sentences) : sentences \in BoundedSeq(SentencePieces, MaxSentences) \ {<<>>}}
        \cup {TwentyWords, TwentyWordsFree, TwentyWordsPiano, TwentyWordsNever}

\* n requirements or constraints
Items(n) == [i \in 1..n |-> Lit("item")]

\* a text of n characters, held in pieces of a hundred and of one
Chars(n) ==
    [i \in 1..((n \div 100) + (n % 100)) |->
        IF i <= n \div 100
        THEN "aaaaaaaaaaaaaaaaaaaaaaaaaaaaaaaaaaaaaaaaaaaaaaaaaaaaaaaaaaaaaaaaaaaaaaaaaaaaaaaaaaaaaaaaaaaaaaaaaaaa"
        ELSE "a"]

QualityLengths == {0, 201, 401, 601}

QualityPrompts ==
    [fullPrompt : {Chars(n) : n \in QualityLengths},
     requirements : {Items(n) : n \in 0..MaxItems},
     constraints : {Items(n) : n \in 0..2},
     intent : {"General", "Creative"}]

Value(v) == [kind |-> "value", value |-> v]

Call_structurePrompt(rawText, conversationHistory) ==
    /\ call = NoCall
    /\ call' = [fn |-> "structurePrompt", rawText |-> rawText,
                conversationHistory |-> conversationHistory]
    /\ returned' = Value(Structurer_structurePrompt(rawText, conversationHistory))
    /\ UNCHANGED <<cmVars, routeVars, uiVars>>

Call_calculateQualityScore(prompt) ==
    /\ call = NoCall
    /\ call' = [fn |-> "calculateQualityScore", prompt |-> prompt]
    /\ returned' = Value(Structurer_calculateQualityScore(prompt))
    /\ UNCHANGED <<cmVars, routeVars, results, uiVars>>

\* calculateQuality of the two structuring routes
Call_calculateQuality(impl, text, requirements, constraints, intent) ==
    /\ call = NoCall
    /\ call' = [fn |-> "calculateQuality", impl |-> impl, text |-> text,
                requirements |-> requirements, constraints |-> constraints,
                intent |-> intent]
    /\ returned' = Value(IF impl = "part_002:63"
                         THEN Part002_calculateQuality(text, requirements, constraints, intent)
                         ELSE StructureRoute_calculateQuality(
                                  text, requirements, constraints, intent))
    /\ UNCHANGED <<cmVars, routeVars, results, uiVars>>

\* the five detectIntent functions of the repository, named by their place
DetectIntentOf(impl, text) ==
    IF impl = "structurer.ts:55" THEN Structurer_detectIntent(text)
    ELSE IF impl = "part_002:229" THEN StructureRoute_detectIntent(text)
    ELSE IF impl = "part_002:28" THEN Part002_detectIntent(text)
    ELSE IF impl = "part_000:51" THEN Part000_detectIntentOf(text)
    ELSE ConverseRoute_detectIntentOf(text)

DetectIntentImpls ==
    {"structurer.ts:55", "part_002:229", "part_002:28", "part_000:51", "converse/route.ts:49"}

Call_detectIntent(impl, text) ==
    /\ call = NoCall
    /\ call' = [fn |-> "detectIntent", impl |-> impl, text |-> text]
    /\ returned' = Value(DetectIntentOf(impl, text))
    /\ UNCHANGED <<cmVars, routeVars, results, uiVars>>

\* the three rule-based extractRequirements functions
ExtractRequirementsOf(impl, text) ==
    IF impl = "structurer.ts:76" THEN Structurer_extractRequirements(text)
    ELSE IF impl = "part_002:249" THEN StructureRoute_extractRequirements(text)
    ELSE Part002_extractRequirements(text)

ExtractRequirementsImpls == {"structurer.ts:76", "part_002:249", "part_002:35"}

Call_extractRequirements(impl, text) ==
    /\ call = NoCall
    /\ call' = [fn |-> "extractRequirements", impl |-> impl, text |-> text]
    /\ returned' = Value(ExtractRequirementsOf(impl, text))
    /\ UNCHANGED <<cmVars, routeVars, results, uiVars>>

\* the two sentence-based extractConstraints functions
ExtractConstraintsOf(impl, text) ==
    IF impl = "structurer.ts:107" THEN Structurer_extractConstraints(text)
    ELSE StructureRoute_extractConstraints(text)

ExtractConstraintsImpls == {"structurer.ts:107", "part_002:265"}

Call_extractConstraints(impl, text) ==
    /\ call = NoCall
    /\ call' = [fn |-> "extractConstraints", impl |-> impl, text |-> text]
    /\ returned' = Value(ExtractConstraintsOf(impl, text))
    /\ UNCHANGED <<cmVars, routeVars, results, uiVars>>

\* the caller has taken the value
Returned ==
    /\ call # NoCall
    /\ call' = NoCall
    /\ returned' = NoReturn
    /\ UNCHANGED <<cmVars, routeVars, results, uiVars>>

EngineInit ==
    /\ state = FreshState
    /\ lastOp = [name |-> "constructor", args |-> <<>>, wasComplete |-> FALSE]
    /\ lastResult = NoResult
    /\ RouteIdle
    /\ EngineIdle
    /\ results = NoResults
    /\ UiIdle

EngineNext ==
    \/ \E rawText \in EngineTexts, conversationHistory \in {<<>>, Hi} :
          Call_structurePrompt(rawText, conversationHistory) /\ UNCHANGED results
    \/ \E prompt \in QualityPrompts : Call_calculateQualityScore(prompt)
    \/ \E text \in {Words(3), Words(6), Words(21)},
          requirements \in {Items(n) : n \in 0..MaxItems},
          constraints \in {Items(n) : n \in 0..2}, intent \in {"General", "Creative"} :
          Call_calculateQuality("part_002:63", text, requirements, constraints, intent)
    \/ \E text \in {Chars(n) : n \in QualityLengths},
          requirements \in {Items(n) : n \in 0..MaxItems},
          constraints \in {Items(n) : n \in 0..2}, intent \in {"General", "Creative"} :
          Call_calculateQuality("part_002:296", text, requirements, constraints, intent)
    \/ \E impl \in DetectIntentImpls, text \in EngineTexts : Call_detectIntent(impl, text)
    \/ \E impl \in ExtractRequirementsImpls, text \in EngineTexts :
          Call_extractRequirements(impl, text)
    \/ \E impl \in ExtractConstraintsImpls, text \in EngineTexts :
          Call_extractConstraints(impl, text)
    \/ Returned

EngineSpec == EngineInit /\ [][EngineNext]_vars

(***************************************************************************)
(* Repeated calls of structurePrompt, with calls of the other engine       *)
(* functions in between.  results is what an observer of the calls keeps:  *)
(* for each pair of arguments, the value returned to the first call and    *)
(* the number of calls so far, counted up to MaxCalls.                     *)
(***************************************************************************)
MaxCalls == 2

RepeatTexts == {Paragraph(<<NeedLogin, NoAds>>), TwentyWordsFree}

Logged ==
    LET args == [rawText |-> call'.rawText,
                 conversationHistory |-> call'.conversationHistory]
    IN  results' =
            IF args \in DOMAIN results
            THEN [results EXCEPT ![args].calls = IF @ < MaxCalls THEN @ + 1 ELSE @]
            ELSE (args :> [value |-> returned'.value, calls |-> 1]) @@ results

RepeatNext ==
    \/ \E rawText \in RepeatTexts, conversationHistory \in {<<>>, Hi} :
          Call_structurePrompt(rawText, conversationHistory) /\ Logged
    \/ \E impl \in DetectIntentImpls, text \in RepeatTexts : Call_detectIntent(impl, text)
    \/ \E impl \in ExtractRequirementsImpls, text \in RepeatTexts :
          Call_extractRequirements(impl, text)
    \/ \E impl \in ExtractConstraintsImpls, text \in RepeatTexts :
          Call_extractConstraints(impl, text)
    \/ Returned

RepeatSpec == EngineInit /\ [][RepeatNext]_vars

(***************************************************************************)
(* The two places a StructuredPrompt is built by rule: structurePrompt and *)
(* the structuring boundary, one call or one request at a time.            *)
(***************************************************************************)
StructuringNext ==
    \/ \E rawText \in EngineTexts, conversationHistory \in {<<>>, Hi} :
          RouteIdle /\ Call_structurePrompt(rawText, conversationHistory)
                    /\ UNCHANGED results
    \/ Returned
    \/ \E req \in StructureBodies : EngineIdle /\ Part002_POST(req)
    \/ \E result \in StructureOutcomes : Part002_POST_Resume(result)
    \/ ResponseSent

StructuringSpec == EngineInit /\ [][StructuringNext]_vars

(***************************************************************************)
(* lib/formatters.ts: the five target templates.  Each builds lines and    *)
(* returns lines.join("\n"); llmIcon and color are fixed per target and    *)
(* read by no decision.                                                    *)
(***************************************************************************)
\* items.forEach(x => lines.push(prefix + x))
Prefixed(items, prefix) == [i \in 1..Len(items) |-> prefix \o items[i]]

Formatters_formatForClaude_EmptyTags(prompt) ==
    [llmName |-> Claude,
     description |-> Lit("Optimized with XML tags and structured thinking"),
     formattedPrompt |->
        Join(<<Lit("<task>"), prompt.context, Lit("</task>"), <<>>,
               Lit("<requirements>")>>
             \o Prefixed(prompt.requirements, Lit("- "))
             \o <<Lit("</requirements>"), <<>>, Lit("<output_format>"),
                  prompt.outputFormat, Lit("</output_format>")>>, Lit("\n"))]

Formatters_formatForClaude(prompt) ==
    LET task == <<Lit("<task>"), prompt.context, Lit("</task>"), <<>>>>
        requirements ==
            IF Len(prompt.requirements) > 0
            THEN <<Lit("<requirements>")>> \o Prefixed(prompt.requirements, Lit("- "))
                    \o <<Lit("</requirements>"), <<>>>>
            ELSE <<>>
        constraints ==
            IF Len(prompt.constraints) > 0
            THEN <<Lit("<constraints>")>> \o Prefixed(prompt.constraints, Lit("- "))
                    \o <<Lit("</constraints>"), <<>>>>
            ELSE <<>>
        rest == <<Lit("<output_format>"), prompt.outputFormat, Lit("</output_format>"), <<>>,
                  Lit("<instructions>"),
                  Lit("Please think through this step-by-step before providing your response."),
                  Lit("Be thorough, follow best practices, and explain your reasoning."),
                  Lit("If anything is ambiguous, state your assumptions clearly."),
                  Lit("</instructions>")>>
    IN  [llmName |-> Claude,
         description |-> Lit("Optimized with XML tags and structured thinking"),
         formattedPrompt |-> Join(task \o requirements \o constraints \o rest, Lit("\n"))]

Formatters_formatForGemini(prompt) ==
    LET task == <<Lit("**Task:** ") \o prompt.context, <<>>>>
        requirements ==
            IF Len(prompt.requirements) > 0
            THEN <<Lit("**Requirements:**")>>
                    \o [i \in 1..Len(prompt.requirements) |->
                            <<ToString(i)>> \o Lit(". ") \o prompt.requirements[i]]
                    \o <<<<>>>>
            ELSE <<>>
        constraints ==
            IF Len(prompt.constraints) > 0
            THEN <<Lit("**Constraints:**")>> \o Prefixed(prompt.constraints, Lit("- "))
                    \o <<<<>>>>
            ELSE <<>>
        rest == <<Lit("**Expected Output:** ") \o prompt.outputFormat, <<>>,
                  Lit("**Important:** Provide a comprehensive, well-structured response. Use markdown formatting for clarity. Include code examples if relevant.")>>
    IN  [llmName |-> Gemini,
         description |-> Lit("Structured with markdown and grounding hints"),
         formattedPrompt |-> Join(task \o requirements \o constraints \o rest, Lit("\n"))]

\* the bullet character of lines 102 and 108 is written [U+2022]
Formatters_formatForChatGPT(prompt) ==
    LET head == <<Lit("[System Message]"),
                  Lit("You are an expert assistant specializing in ")
                     \o ToLowerCase(prompt.intent)
                     \o Lit(". Provide detailed, accurate, and well-structured responses. Follow best practices and industry standards."),
                  <<>>, Lit("[User Message]"), prompt.context, <<>>>>
        requirements ==
            IF Len(prompt.requirements) > 0
            THEN <<Lit("Requirements:")>> \o Prefixed(prompt.requirements, Lit("[U+2022] "))
                    \o <<<<>>>>
            ELSE <<>>
        constraints ==
            IF Len(prompt.constraints) > 0
            THEN <<Lit("Constraints:")>> \o Prefixed(prompt.constraints, Lit("[U+2022] "))
                    \o <<<<>>>>
            ELSE <<>>
        rest == <<Lit("Please provide: ") \o prompt.outputFormat>>
    IN  [llmName |-> ChatGPT,
         description |-> Lit("System/User message split for GPT models"),
         formattedPrompt |-> Join(head \o requirements \o constraints \o rest, Lit("\n"))]

Formatters_formatForDeepSeek(prompt) ==
    LET head == <<Lit("## Problem Statement"), prompt.context, <<>>>>
        requirements ==
            IF Len(prompt.requirements) > 0
            THEN <<Lit("## Specifications")>> \o Prefixed(prompt.requirements, Lit("- "))
                    \o <<<<>>>>
            ELSE <<>>
        constraints ==
            IF Len(prompt.constraints) > 0
            THEN <<Lit("## Constraints")>> \o Prefixed(prompt.constraints, Lit("- "))
                    \o <<<<>>>>
            ELSE <<>>
        rest == <<Lit("## Instructions"),
                  Lit("1. First, analyze the problem and break it down into sub-problems"),
                  Lit("2. Think through each sub-problem step by step"),
                  Lit("3. Provide a complete, working solution"),
                  Lit("4. Explain your reasoning and any trade-offs made"),
                  <<>>, Lit("## Expected Output"), prompt.outputFormat>>
    IN  [llmName |-> DeepSeek,
         description |-> Lit("Chain-of-thought with step-by-step reasoning"),
         formattedPrompt |-> Join(head \o requirements \o constraints \o rest, Lit("\n"))]

Formatters_formatForGrok(prompt) ==
    LET head == <<prompt.context, <<>>>>
        requirements ==
            IF Len(prompt.requirements) > 0
            THEN <<Lit("Key requirements: ") \o Join(prompt.requirements, Lit("; ")), <<>>>>
            ELSE <<>>
        constraints ==
            IF Len(prompt.constraints) > 0
            THEN <<Lit("Constraints: ") \o Join(prompt.constraints, Lit("; ")), <<>>>>
            ELSE <<>>
        rest == <<Lit("Be direct, thorough, and practical. ") \o prompt.outputFormat
                     \o Lit(".")>>
    IN  [llmName |-> Grok, description |-> Lit("Concise, direct, and to-the-point"),
         formattedPrompt |-> Join(head \o requirements \o constraints \o rest, Lit("\n"))]

Formatters_formatForAllLLMs(prompt) ==
    <<Formatters_formatForClaude(prompt), Formatters_formatForGemini(prompt),
      Formatters_formatForChatGPT(prompt), Formatters_formatForDeepSeek(prompt),
      Formatters_formatForGrok(prompt)>>

(***************************************************************************)
(* The two places a StructuredPrompt is rendered for the targets:          *)
(* formatForAllLLMs and the formatting boundary, one call or one request   *)
(* at a time.                                                              *)
(***************************************************************************)
StructuredPrompts ==
    [context : {Hi, WriteCode},
     requirements : {Items(n) : n \in 0..2},
     constraints : {Items(n) : n \in 0..2},
     outputFormat : {Lit("Working code with comments")},
     intent : {General, CodeGeneration}]

Call_formatForAllLLMs(prompt) ==
    /\ call = NoCall
    /\ call' = [fn |-> "formatForAllLLMs", prompt |-> prompt]
    /\ returned' = Value(Formatters_formatForAllLLMs(prompt))
    /\ UNCHANGED <<cmVars, routeVars, results, uiVars>>

FormattingNext ==
    \/ \E prompt \in StructuredPrompts : RouteIdle /\ Call_formatForAllLLMs(prompt)
    \/ Returned
    \/ \E req \in FormatBodies : EngineIdle /\ FormatRoute_POST(req)
    \/ \E result \in FormatOutcomes : FormatRoute_POST_Resume(result)
    \/ ResponseSent

FormattingSpec == EngineInit /\ [][FormattingNext]_vars

(***************************************************************************)
(* The two recognizer wrappers under any client: the client calls start()  *)
(* and stop(), the browser delivers the recognizers' events and runs the   *)
(* timers.  A recognizer delivers results while it runs and, after stop(), *)
(* until its end event (the Web Speech API lets stop() return a result     *)
(* from the audio captured so far).                                        *)
(***************************************************************************)
HeyListen == Lit("hey listen")

Speech_start ==
    /\ speech' = [SpeechManager_start(speech) EXCEPT !.asked = "start"]
    /\ UNCHANGED <<cmVars, routeVars, engineVars, wake, page>>

Speech_stop ==
    /\ speech' = [SpeechManager_stop(speech) EXCEPT !.asked = "stop"]
    /\ UNCHANGED <<cmVars, routeVars, engineVars, wake, page>>

Speech_onstart ==
    /\ speech.recognition = "starting"
    /\ speech' = SpeechManager_onstart(speech)
    /\ UNCHANGED <<cmVars, routeVars, engineVars, wake, page>>

\* the recognizer ends: after stop(), by itself, or on a failed start
Speech_onend ==
    /\ speech.recognition \in {"starting", "running", "stopping"}
    /\ speech.shouldRestart => speech.timers < MaxTimers
    /\ speech' = SpeechManager_onend(speech)
    /\ UNCHANGED <<cmVars, routeVars, engineVars, wake, page>>

Speech_restart ==
    /\ speech.timers > 0
    /\ speech' = SpeechManager_restart(speech)
    /\ UNCHANGED <<cmVars, routeVars, engineVars, wake, page>>

Wake_start ==
    /\ wake.listening \/ Len(wake.recs) < MaxRecognizers
    /\ wake' = [WakeWordDetector_start(wake) EXCEPT !.woke = "no"]
    /\ UNCHANGED <<cmVars, routeVars, engineVars, speech, page>>

Wake_stop ==
    /\ wake' = [WakeWordDetector_stop(wake) EXCEPT !.woke = "no"]
    /\ UNCHANGED <<cmVars, routeVars, engineVars, speech, page>>

\* recognizer i begins to capture
Wake_onstart(i) ==
    /\ wake.recs[i] = "starting"
    /\ wake' = [wake EXCEPT !.recs[i] = "running"]
    /\ UNCHANGED <<cmVars, routeVars, engineVars, speech, page>>

Wake_onresult(i, transcript, stops) ==
    /\ wake.recs[i] \in {"running", "stopping"}
    /\ wake.cooldownTimers < MaxTimers
    /\ wake' = WakeWordDetector_onresult(wake, transcript, stops)
    /\ UNCHANGED <<cmVars, routeVars, engineVars, speech, page>>

Wake_onend(i) ==
    /\ wake.recs[i] \in {"starting", "running", "stopping", "cancelled"}
    /\ wake.listening => wake.restartTimers < MaxTimers
    /\ wake' = WakeWordDetector_onend(wake, i)
    /\ UNCHANGED <<cmVars, routeVars, engineVars, speech, page>>

Wake_onerror(i) ==
    /\ wake.recs[i] \in {"starting", "running", "stopping", "cancelled"}
    /\ wake.listening => wake.restartTimers < MaxTimers
    /\ wake' = WakeWordDetector_onerror(wake)
    /\ UNCHANGED <<cmVars, routeVars, engineVars, speech, page>>

Wake_restart ==
    /\ wake.restartTimers > 0
    /\ wake' = WakeWordDetector_restart(wake)
    /\ UNCHANGED <<cmVars, routeVars, engineVars, speech, page>>

\* the timer of line 47 fires
Wake_cooldownOver ==
    /\ wake.cooldownTimers > 0
    /\ wake' = [wake EXCEPT !.cooldownTimers = @ - 1, !.cooldown = FALSE]
    /\ UNCHANGED <<cmVars, routeVars, engineVars, speech, page>>

DevicesNext ==
    \/ Speech_start \/ Speech_stop \/ Speech_onstart \/ Speech_onend \/ Speech_restart
    \/ Wake_start \/ Wake_stop \/ Wake_restart \/ Wake_cooldownOver
    \/ \E i \in 1..Len(wake.recs) :
          \/ Wake_onstart(i) \/ Wake_onend(i) \/ Wake_onerror(i)
          \/ \E transcript \in {Hi, HeyListen}, stops \in BOOLEAN :
                Wake_onresult(i, transcript, stops)

DevicesSpec == EngineInit /\ [][DevicesNext]_vars

(***************************************************************************)
(* Properties of the conversation state machine                            *)
(***************************************************************************)
\* the words of a text: its maximal runs of non-whitespace characters
WordCount(text) ==
    Cardinality({i \in 1..Len(text) :
                    /\ ~IsWhitespace(text[i])
                    /\ (i = 1 \/ IsWhitespace(text[i - 1]))})

RECURSIVE TotalUserWords(_)
TotalUserWords(messages) ==
    IF messages = <<>> THEN 0
    ELSE (IF Head(messages).role = "user" THEN WordCount(Head(messages).content) ELSE 0)
         + TotalUserWords(Tail(messages))

\* the session before the turn of the last call, and with its user message appended
PriorMessages == SubSeq(state.messages, 1, Len(state.messages) - 2)
MessagesAtEvaluation == SubSeq(state.messages, 1, Len(state.messages) - 1)
AssistantTexts(messages) ==
    {messages[i].content : i \in {j \in 1..Len(messages) : messages[j].role = "assistant"}}

\* C1: processUserInput returns shouldStructure = TRUE exactly when, with the
\* current user message appended, the user messages hold more than 15 words in
\* total or the session holds at least 4 messages.
C1_ReadinessRule ==
    lastOp.name = "processUserInput" =>
        (lastResult.shouldStructure <=>
            \/ TotalUserWords(MessagesAtEvaluation) > 15
            \/ Len(MessagesAtEvaluation) >= 4)

\* ready on the word count alone: fewer than 4 messages at evaluation
C1_Witness ==
    /\ lastOp.name = "processUserInput"
    /\ lastResult.shouldStructure
    /\ Len(MessagesAtEvaluation) < 4
    /\ TotalUserWords(MessagesAtEvaluation) > 15

\* C2: without a reset, once isComplete is TRUE it stays TRUE, and every later
\* processUserInput returns shouldStructure = TRUE.
C2_CompleteIsMonotonic ==
    (lastOp.wasComplete /\ lastOp.name # "reset") =>
        /\ state.isComplete
        /\ (lastOp.name = "processUserInput" => lastResult.shouldStructure)

\* a processUserInput that found the session complete already
C2_Witness ==
    /\ lastOp.name = "processUserInput"
    /\ lastOp.wasComplete
    /\ lastResult.shouldStructure
    /\ state.isComplete

\* C3: a turn that asks a clarifying question, in processUserInput or in the
\* rule-based converse route fed the session's history, never asks one whose
\* text is already among the prior assistant messages.
C3_NoQuestionTwice ==
    (lastOp.name \in {"processUserInput", "converse"}
        /\ lastResult.response # ReadyResponse) =>
        lastResult.response \notin AssistantTexts(PriorMessages)

\* the route asks its second question after processUserInput asked the first
C3_Witness ==
    /\ lastOp.name = "converse"
    /\ ~lastResult.shouldStructure
    /\ lastResult.response = ConverseRoute_CLARIFYING_TEMPLATES["General"][2]
    /\ CLARIFYING_TEMPLATES["General"][1] \in AssistantTexts(PriorMessages)
    /\ state.clarifyingQuestion = CLARIFYING_TEMPLATES["General"][1]

TemplatesAfterReset(intent) ==
    IF intent \in DOMAIN CLARIFYING_TEMPLATES
    THEN CLARIFYING_TEMPLATES[intent]
    ELSE CLARIFYING_TEMPLATES["General"]

\* the question list the turn of the last call chose from
TemplatesOfTurn ==
    IF lastOp.name = "processUserInput"
    THEN (IF lastOp.args[2] \in DOMAIN CLARIFYING_TEMPLATES
          THEN CLARIFYING_TEMPLATES[lastOp.args[2]]
          ELSE CLARIFYING_TEMPLATES["General"])
    ELSE LET intent == ConverseRoute_detectIntent(lastOp.args[1])
         IN  IF intent \in DOMAIN ConverseRoute_CLARIFYING_TEMPLATES
             THEN ConverseRoute_CLARIFYING_TEMPLATES[intent]
             ELSE ConverseRoute_CLARIFYING_TEMPLATES["General"]

\* C4: a turn that the readiness rule did not declare ready, and for which every
\* question of the detected category is already among the prior assistant
\* messages, answers the generic closing line with shouldStructure = TRUE.
C4_ExhaustedMeansReady ==
    (lastOp.name \in {"processUserInput", "converse"}
        /\ lastResult.response # ReadyResponse
        /\ Range(TemplatesOfTurn) \subseteq AssistantTexts(PriorMessages)) =>
        (lastResult.response = ClosingLine /\ lastResult.shouldStructure)

C4_Witness ==
    /\ lastOp.name = "converse"
    /\ Range(ConverseRoute_CLARIFYING_TEMPLATES["General"])
            \subseteq AssistantTexts(PriorMessages)
    /\ lastResult.response = ClosingLine
    /\ lastResult.shouldStructure

\* C5: rawTranscripts is the contents of the user messages, in order.
C5_RawTranscriptsMirrorUserMessages ==
    /\ Len(state.rawTranscripts)
          = Cardinality({i \in 1..Len(state.messages) : state.messages[i].role = "user"})
    /\ state.rawTranscripts = ContentsOf(state.messages, "user")

\* two different user turns with an assistant turn between them
C5_Witness ==
    /\ Len(state.rawTranscripts) >= 2
    /\ state.rawTranscripts[1] # state.rawTranscripts[2]
    /\ Len(state.messages) > Len(state.rawTranscripts)
    /\ state.messages[1].role = "user"
    /\ state.messages[2].role = "assistant"

\* C6: processUserInput appends the user message then one assistant message
\* carrying the returned response, and changes no earlier message.
C6_AppendsUserThenAssistant ==
    [][lastOp'.name = "processUserInput" =>
          state'.messages = state.messages
              \o <<[role |-> "user", content |-> lastOp'.args[1]],
                   [role |-> "assistant", content |-> lastResult'.response]>>]_vars

\* a readiness declaration recorded after an earlier exchange
C6_Witness ==
    /\ lastOp.name = "processUserInput"
    /\ Len(state.messages) >= 4
    /\ lastResult.shouldStructure
    /\ state.messages[Len(state.messages)].content = ReadyResponse

\* C7: reset leaves the state a new manager has, and the processUserInput that
\* follows answers as it does on a new manager.
C7_ResetIsFresh ==
    [][/\ lastOp'.name = "reset" =>
            /\ state'.messages = <<>>
            /\ state'.rawTranscripts = <<>>
            /\ state'.isComplete = FALSE
            /\ state'.clarifyingQuestion = Null
            /\ state'.combinedIntent = ""
       /\ (lastOp.name = "reset" /\ lastOp'.name = "processUserInput") =>
            /\ Len(state'.messages) = 2
            /\ lastResult' =
                  (IF WordCount(lastOp'.args[1]) > 15
                   THEN [response |-> ReadyResponse, shouldStructure |-> TRUE]
                   ELSE [response |-> TemplatesAfterReset(lastOp'.args[2])[1],
                         shouldStructure |-> FALSE])]_vars

\* a reset that discarded a session already declared complete
C7_Witness ==
    /\ lastOp.name = "reset"
    /\ lastOp.args[1] >= 4
    /\ lastOp.wasComplete
    /\ state.messages = <<>>

(***************************************************************************)
(* Properties of the boundary routes                                       *)
(***************************************************************************)
\* the reply of the rule-based path of the route the request went to
RuleBasedResponse(req) ==
    IF req.route = "converse" THEN Part000_RuleBased(req)
    ELSE IF req.route = "structure" THEN Part002_RuleBased(req)
    ELSE FormatRoute_RuleBased(req)

\* the hosted-model call failed: a transport error, a non-2xx status, a body
\* that is not JSON, missing or empty message content, or content with no
\* parseable JSON structure where the route expects one
AdapterFailed(req, outcome) ==
    \/ outcome.kind \in {"transportError", "httpError", "bodyNotJson"}
    \/ /\ outcome.kind = "ok"
       /\ \/ outcome.content = NoContent
          \/ /\ req.route \in {"structure", "format"}
             /\ outcome.content.match \in {"none", "malformed"}

\* a handler has returned after its hosted-model call settled
ReturnedAfterAdapter == pc = "done" /\ settled # NoOutcome

\* C8: at each of the three boundaries, when a credential is supplied and the
\* hosted-model call fails in any way (transport error, non-2xx status,
\* missing or empty message content, no parseable JSON structure), the
\* response is exactly the one the rule-based path produces for the same
\* request, and the failure is not returned as a server error.
C8_FailureFallsBackToRuleBased ==
    (ReturnedAfterAdapter /\ AdapterFailed(request, settled))
        => /\ response = RuleBasedResponse(request)
           /\ response.status # 500

SupportedTargets == {Claude, Gemini, ChatGPT, DeepSeek, Grok}

\* the request names a target that matches none of the supported ones,
\* compared case-insensitively
UnknownTarget(req) ==
    /\ req.route = "format"
    /\ ~FormatRoute_Invalid(req)
    /\ HasTarget(req)
    /\ \A name \in SupportedTargets : ToLowerCase(name) # ToLowerCase(req.targetLLM)

\* C10: whenever the format boundary receives a target name that matches none
\* of the supported targets (compared case-insensitively), it responds with
\* the unknown-target error and never with the full set of formatted
\* prompts, whether or not a credential is supplied and whatever the adapter
\* returns.
C10_UnknownTargetIsAnError ==
    (pc = "done" /\ UnknownTarget(request))
        => /\ response.status = 400
           /\ response.error = Lit("Unknown LLM: ") \o request.targetLLM

\* the body carries no transcript, an empty one, or one of whitespace only
BlankInput(req) ==
    \/ "transcript" \notin DOMAIN req
    \/ \A i \in 1..Len(req.transcript) : IsWhitespace(req.transcript[i])

TranscriptRequired == [status |-> 400, error |-> Lit("Transcript is required")]

\* C11: a missing, empty or whitespace-only transcript at the converse and
\* structure boundaries yields the 400 client error at once: the handler
\* never waits on the hosted model for it, no hosted-model outcome exists for
\* it, and no engine result (rule-based or adapter) is committed for it.
C11_BlankTranscriptIsRejectedFirst ==
    (request.route \in {"converse", "structure"} /\ BlankInput(request))
        => /\ pc = "done"
           /\ response = TranscriptRequired
           /\ settled = NoOutcome
           /\ committed = <<>>

C11_Witness ==
    /\ request.route = "structure"
    /\ "transcript" \in DOMAIN request
    /\ request.transcript = <<" ">>
    /\ "apiKey" \in DOMAIN request
    /\ request.apiKey = <<"s", "k">>
    /\ response = TranscriptRequired

\* the body carries no apiKey, an empty one, or one of whitespace only
NoCredential(req) ==
    \/ "apiKey" \notin DOMAIN req
    \/ \A i \in 1..Len(req.apiKey) : IsWhitespace(req.apiKey[i])

\* the request passed the route's validation of its required field
ValidRequest(req) ==
    IF req.route = "format" THEN ~FormatRoute_Invalid(req) ELSE ~BlankInput(req)

\* C12: when a request carries no credential (apiKey absent, empty or
\* whitespace-only), none of the three boundary routes calls the hosted-model
\* adapter: the handler never waits on it, no outcome of it exists, and the
\* response of a valid request is the rule-based one.
C12_NoCredentialNoAdapter ==
    (request.route \in {"converse", "structure", "format"} /\ NoCredential(request))
        => /\ pc = "done"
           /\ settled = NoOutcome
           /\ ValidRequest(request)
                 => /\ response = RuleBasedResponse(request)
                    /\ committed = <<"fallback">>

C12_Witness ==
    /\ request.route = "format"
    /\ ValidRequest(request)
    /\ "apiKey" \in DOMAIN request
    /\ request.apiKey = <<" ">>
    /\ pc = "done"
    /\ response = RuleBasedResponse(request)

(***************************************************************************)
(* Properties of the structuring engines                                   *)
(***************************************************************************)
\* C13: every StructuredPrompt produced by structurePrompt or returned by the
\* structuring boundary, on the rule-based path and on the adapter path
\* alike, has a qualityScore that is an integer from 0 to 100.
C13_QualityScoreInRange ==
    /\ call.fn = "structurePrompt" => returned.value.qualityScore \in 0..100
    /\ (pc = "done" /\ request.route = "structure" /\ response.status = 200)
          => response.data.qualityScore \in 0..100

\* the score the called implementation gives once more requirements and more
\* constraints have been added to the ones of the call
ScoreWithAdded(moreRequirements, moreConstraints) ==
    IF call.fn = "calculateQualityScore"
    THEN Structurer_calculateQualityScore(
             [call.prompt EXCEPT !.requirements = @ \o moreRequirements,
                                 !.constraints = @ \o moreConstraints])
    ELSE IF call.impl = "part_002:63"
    THEN Part002_calculateQuality(call.text, call.requirements \o moreRequirements,
                                  call.constraints \o moreConstraints, call.intent)
    ELSE StructureRoute_calculateQuality(call.text, call.requirements \o moreRequirements,
                                         call.constraints \o moreConstraints, call.intent)

\* C14: the quality score is monotonically non-decreasing in its inputs: for
\* a fixed text length and intent, adding requirements or constraints
\* without removing existing ones never lowers the score returned by
\* calculateQualityScore / calculateQuality.
C14_ScoreIsMonotone ==
    call.fn \in {"calculateQualityScore", "calculateQuality"}
        => \A r \in 0..MaxItems, c \in 0..2 :
              ScoreWithAdded(Items(r), Items(c)) >= returned.value

C14_Witness ==
    /\ call.fn = "calculateQualityScore"
    /\ Len(call.prompt.requirements) = 2
    /\ Len(call.prompt.constraints) = 0
    /\ returned.value < ScoreWithAdded(Items(1), Items(0))
    /\ returned.value < ScoreWithAdded(Items(0), Items(1))

\* the table the called detectIntent reads
PatternsOf(impl) ==
    IF impl = "structurer.ts:55" THEN Structurer_INTENT_PATTERNS
    ELSE IF impl = "part_002:229" THEN StructureRoute_INTENT_PATTERNS
    ELSE IF impl = "part_002:28" THEN Part002_INTENT_PATTERNS
    ELSE IF impl = "part_000:51" THEN Part000_INTENT_PATTERNS
    ELSE ConverseRoute_INTENT_PATTERNS

\* the closed category set of the called detectIntent
LabelsOf(impl) ==
    IF impl \in {"structurer.ts:55", "part_002:229"}
    THEN {"Code Generation", "Writing & Content", "Analysis & Research",
          "Problem Solving", "Creative", "Data & Automation", "General"}
    ELSE IF impl \in {"part_002:28", "part_000:51"}
    THEN {"Code Generation", "Writing", "Analysis", "Creative", "Data", "General"}
    ELSE {"Code Generation", "Writing & Content", "Analysis & Research",
          "Problem Solving", "Creative", "General"}

\* no keyword (as a substring) or pattern (as a whole word) of any category
\* of the called detectIntent matches the text
NothingMatches(impl, text) ==
    \A e \in 1..Len(PatternsOf(impl)) :
        IF impl \in {"part_002:28", "part_000:51"}
        THEN ~WordPatternTest(text, PatternsOf(impl)[e].kws)
        ELSE \A k \in 1..Len(PatternsOf(impl)[e].kws) :
                ~Includes(ToLowerCase(text), PatternsOf(impl)[e].kws[k])

\* C15: for every non-empty text, detectIntent returns a label of its closed
\* category set and never an error; when no keyword or pattern of any
\* category matches, the result is General.
C15_DetectIntentIsTotal ==
    call.fn = "detectIntent"
        => /\ call.text # <<>>
           /\ returned.kind = "value"
           /\ returned.value \in LabelsOf(call.impl)
           /\ NothingMatches(call.impl, call.text) => returned.value = "General"

C15_Witness ==
    /\ call.fn = "detectIntent"
    /\ call.impl = "part_000:51"
    /\ call.text = Ok
    /\ NothingMatches(call.impl, call.text)
    /\ returned.value = "General"

\* the space-separated tokens of a keyword: its maximal runs of non-blanks
TokenCount(keyword) ==
    Cardinality({i \in 1..Len(keyword) :
                    keyword[i] # " " /\ (i = 1 \/ keyword[i - 1] = " ")})

\* the total weight of the keywords of one category that occur in the text
RECURSIVE TotalWeight(_, _)
TotalWeight(lower, keywords) ==
    IF keywords = <<>> THEN 0
    ELSE (IF \E i \in 1..Len(lower) :
                /\ i + Len(Head(keywords)) - 1 <= Len(lower)
                /\ \A j \in 1..Len(Head(keywords)) : lower[i + j - 1] = Head(keywords)[j]
          THEN TokenCount(Head(keywords)) ELSE 0)
         + TotalWeight(lower, Tail(keywords))

\* the total of category e of the called table for the text of the call
TotalOf(e) == TotalWeight(ToLowerCase(call.text), PatternsOf(call.impl)[e].kws)

BestScoreCall ==
    /\ call.fn = "detectIntent"
    /\ call.impl \in {"structurer.ts:55", "part_002:229"}

\* C16: under the best-score policy each matched keyword contributes a weight
\* equal to its number of space-separated tokens, the category with the
\* strictly highest total is returned, a tie between categories is resolved
\* in favour of the category that comes first in the fixed table order, and
\* an all-zero score yields General.
C16_BestScorePolicy ==
    BestScoreCall
        => LET categories == 1..Len(PatternsOf(call.impl))
           IN  IF \A e \in categories : TotalOf(e) = 0
               THEN returned.value = "General"
               ELSE \E b \in categories :
                       /\ returned.value = PatternsOf(call.impl)[b].intent
                       /\ \A e \in categories :
                             /\ TotalOf(e) <= TotalOf(b)
                             /\ e < b => TotalOf(e) < TotalOf(b)

\* a tie at the top between the second and the fourth category, the earlier
\* one returned; the fourth owes its total to one two-token keyword
C16_Witness ==
    /\ BestScoreCall
    /\ call.impl = "structurer.ts:55"
    /\ call.text = HowToPostEssay
    /\ returned.value = "Writing & Content"
    /\ TotalOf(2) = 2
    /\ TotalOf(4) = 2
    /\ \A e \in 1..Len(PatternsOf(call.impl)) : TotalOf(e) <= 2

\* positions i..j hold one sentence of the text: a maximal run of characters
\* other than '.', '!' and '?'
IsSentence(text, i, j) ==
    /\ i <= j
    /\ \A h \in i..j : ~IsSentenceEnd(text[h])
    /\ (i = 1 \/ IsSentenceEnd(text[i - 1]))
    /\ (j = Len(text) \/ IsSentenceEnd(text[j + 1]))

\* the sentence at i..j without the whitespace around it
TrimmedSentence(text, i, j) ==
    LET inked == {h \in i..j : ~IsWhitespace(text[h])}
    IN  IF inked = {} THEN <<>>
        ELSE SubSeq(text, CHOOSE h \in inked : \A g \in inked : h <= g,
                          CHOOSE h \in inked : \A g \in inked : h >= g)

\* the text holds a sentence whose trimmed length exceeds 5 characters
HasLongSentence(text) ==
    \E i, j \in 1..Len(text) :
        IsSentence(text, i, j) /\ Len(TrimmedSentence(text, i, j)) > 5

\* C17: for all text, extractRequirements returns a non-empty sequence
\* whenever the text contains at least one sentence (delimited by '.', '!'
\* or '?') whose trimmed length exceeds 5 characters; this holds for every
\* rule-based extractRequirements in the repository, including the one used
\* as fallback by the structuring boundary.
C17_RequirementsFallback ==
    (call.fn = "extractRequirements" /\ HasLongSentence(call.text))
        => Len(returned.value) > 0

\* no, don't, without, avoid, never
NegationTokens ==
    <<<<"n", "o">>, <<"d", "o", "n", "'", "t">>, <<"w", "i", "t", "h", "o", "u", "t">>, <<"a", "v", "o", "i", "d">>, <<"n", "e", "v", "e", "r">>>>

\* the text holds a negation-signal token as a word of its own
HasNegationToken(text) == WordPatternTest(text, NegationTokens)

\* the canned constraint of each trigger word that occurs in the text
CannedFor(text) ==
    LET lower == ToLowerCase(text)
    IN  (IF Includes(lower, Free)
         THEN {Lit("Must use only free/open-source tools")} ELSE {})
        \cup (IF Includes(lower, Simple)
              THEN {Lit("Keep the solution simple and straightforward")} ELSE {})
        \cup (IF Includes(lower, Fast) \/ Includes(lower, Quick)
              THEN {Lit("Optimize for speed and performance")} ELSE {})
        \cup (IF Includes(lower, Secure)
              THEN {Lit("Follow security best practices")} ELSE {})

\* C18: every sentence of the input that contains a negation-signal token
\* (no, don't, without, avoid, never) appears verbatim (trimmed) in the
\* constraints returned by extractConstraints, independently of which of
\* these tokens occur elsewhere in the text, and the canned trigger-word
\* constraints are appended in addition to, not instead of, those sentences.
C18_NegationSentencesAreConstraints ==
    call.fn = "extractConstraints"
        => /\ \A i, j \in 1..Len(call.text) :
                 (IsSentence(call.text, i, j)
                    /\ HasNegationToken(SubSeq(call.text, i, j)))
                     => TrimmedSentence(call.text, i, j) \in Range(returned.value)
           /\ CannedFor(call.text) \subseteq Range(returned.value)

\* structurePrompt was called on a combined transcript of 20 or more words
\* that contains no negation token
LongWithoutNegation ==
    /\ call.fn = "structurePrompt"
    /\ WordCount(call.rawText) >= 20
    /\ ~HasNegationToken(call.rawText)

SectionNames ==
    [h \in {"## Task\n", "## Requirements\n", "## Constraints\n", "## Expected Output\n"}
        |-> IF h = "## Task\n" THEN "Task"
            ELSE IF h = "## Requirements\n" THEN "Requirements"
            ELSE IF h = "## Constraints\n" THEN "Constraints"
            ELSE "Expected Output"]

\* the pieces that open the Guidelines section, which is one literal
GuidelinesPieces ==
    {Structurer_Guidelines[1],
     "## Guidelines\n- Be thorough and detailed\n- Follow best practices\n- Explain important decisions"}

\* the sections of a fullPrompt, in the order they appear in it
RECURSIVE SectionsOf(_)
SectionsOf(fullPrompt) ==
    IF fullPrompt = <<>> THEN <<>>
    ELSE (IF Head(fullPrompt) \in DOMAIN SectionNames
          THEN <<SectionNames[Head(fullPrompt)]>>
          ELSE IF Head(fullPrompt) \in GuidelinesPieces THEN <<"Guidelines">>
          ELSE <<>>)
         \o SectionsOf(Tail(fullPrompt))

\* the sections in the fixed order, Requirements and Constraints only when
\* there are some
SectionsFor(prompt) ==
    <<"Task">>
        \o (IF prompt.requirements # <<>> THEN <<"Requirements">> ELSE <<>>)
        \o (IF prompt.constraints # <<>> THEN <<"Constraints">> ELSE <<>>)
        \o <<"Expected Output", "Guidelines">>

\* the boundary answered with a prompt built by rule
RuleBasedPrompt ==
    /\ pc = "done"
    /\ request.route = "structure"
    /\ committed = <<"fallback">>

\* C20: the fullPrompt built by the structuring engine contains its sections
\* in the fixed order Task, Requirements, Constraints, Expected Output,
\* Guidelines; the Requirements section is present if and only if
\* requirements is non-empty and the Constraints section is present if and
\* only if constraints is non-empty (an empty section is never rendered).
C20_SectionsInOrder ==
    /\ call.fn = "structurePrompt"
          => SectionsOf(returned.value.fullPrompt) = SectionsFor(returned.value)
    /\ RuleBasedPrompt
          => SectionsOf(response.data.fullPrompt) = SectionsFor(response.data)

\* a prompt with requirements and no constraints: four sections
C20_Witness ==
    /\ call.fn = "structurePrompt"
    /\ returned.value.requirements # <<>>
    /\ returned.value.constraints = <<>>
    /\ SectionsOf(returned.value.fullPrompt)
          = <<"Task", "Requirements", "Expected Output", "Guidelines">>

(***************************************************************************)
(* Properties of the target templates                                      *)
(***************************************************************************)
\* the pieces with which a template opens, closes or summarises its
\* requirements or constraints portion
PortionPieces ==
    {"<requirements>", "</requirements>", "<constraints>", "</constraints>",
     "**Requirements:**", "**Constraints:**", "Requirements:", "Constraints:",
     "## Specifications", "## Constraints", "Key requirements: ", "Constraints: ",
     "\n<requirements>\n", "\n</requirements>\n", "\n<constraints>\n",
     "\n</constraints>\n", "\n## Requirements\n", "\n## Constraints\n",
     "\n\nRequirements:\n", "\n\nConstraints:\n", "\n**Requirements:**\n",
     "\n**Constraints:**\n", " Requirements: ", " Avoid: "}

HasPortion(text) == \E i \in 1..Len(text) : text[i] \in PortionPieces

NoRequirementsNoConstraints(prompt) ==
    /\ FieldOr(prompt, "requirements", <<>>) = <<>>
    /\ FieldOr(prompt, "constraints", <<>>) = <<>>

\* the formatting boundary has answered with its rule-based renderings
RuleBasedFormats ==
    /\ pc = "done"
    /\ request.route = "format"
    /\ committed = <<"fallback">>
    /\ response.status = 200

\* C21: for a StructuredPrompt with empty requirements and empty constraints,
\* every one of the five target templates, of lib/formatters.ts and of the
\* format route's rule-based formatters, omits its requirements and
\* constraints portion: no header, tag pair or inline summary is emitted.
C21_EmptyPortionsAreOmitted ==
    /\ (call.fn = "formatForAllLLMs" /\ NoRequirementsNoConstraints(call.prompt))
          => \A i \in 1..Len(returned.value) :
                ~HasPortion(returned.value[i].formattedPrompt)
    /\ (RuleBasedFormats /\ NoRequirementsNoConstraints(request.prompt))
          => \A i \in 1..Len(response.data) :
                ~HasPortion(response.data[i].formattedPrompt)

C21_Witness ==
    /\ call.fn = "formatForAllLLMs"
    /\ NoRequirementsNoConstraints(call.prompt)
    /\ Len(returned.value) = 5
    /\ \A i \in 1..5 : ~HasPortion(returned.value[i].formattedPrompt)

\* the target names of a list of renderings, in order
NamesOf(formats) == [i \in 1..Len(formats) |-> FieldOr(formats[i], "llmName", <<>>)]

TargetOrder == <<Claude, Gemini, ChatGPT, DeepSeek, Grok>>

\* C22: formatForAllLLMs, and the format boundary when called without a
\* target name, always return exactly one FormattedPrompt per supported
\* target, five in total, in the fixed order Claude, Gemini, ChatGPT,
\* DeepSeek, Grok, for every StructuredPrompt input.
C22_OnePerTargetInOrder ==
    /\ call.fn = "formatForAllLLMs" => NamesOf(returned.value) = TargetOrder
    /\ (pc = "done" /\ request.route = "format" /\ ~FormatRoute_Invalid(request)
            /\ ~HasTarget(request))
          => /\ response.status = 200
             /\ NamesOf(response.data) = TargetOrder

(***************************************************************************)
(* Properties of repeated calls                                            *)
(***************************************************************************)
\* the arguments of the structurePrompt call in progress
ArgsOfCall ==
    [rawText |-> call.rawText, conversationHistory |-> call.conversationHistory]

ManagerDecision(transcript) ==
    processUserInput(state, transcript, "General").result.shouldStructure

RouteDecision(transcript) ==
    ConverseRoute_POST(transcript, state.messages).data.shouldStructure

AdapterRouteDecision(transcript) ==
    Part000_RuleBased([route |-> "converse", transcript |-> transcript,
                       conversationHistory |-> state.messages]).data.shouldStructure

\* C25: for the same conversation history and the same new transcript, the
\* rule-based converse route and ConversationManager.processUserInput reach
\* the same ready / not-ready decision (the same shouldStructure value).
C25_SameReadinessDecision ==
    \A transcript \in Transcripts :
        /\ RouteDecision(transcript) = ManagerDecision(transcript)
        /\ AdapterRouteDecision(transcript) = ManagerDecision(transcript)

\* the number of messages of a role in the session
CountOf(role) == Len(ContentsOf(state.messages, role))

\* C26: starting from a fresh or reset ConversationManager, processUserInput
\* returns shouldStructure = true no later than its third call, whatever the
\* transcripts and detected intents.  Each call appends one user and one
\* assistant message and nothing but reset removes a message, so the session
\* holds at least three of each once the third call has returned.
C26_ReadyByThirdCall ==
    (lastOp.name = "processUserInput" /\ CountOf("user") >= 3 /\ CountOf("assistant") >= 3)
        => lastResult.shouldStructure = TRUE

C26_Witness ==
    /\ lastOp.name = "processUserInput"
    /\ ~lastOp.wasComplete
    /\ Len(state.messages) = 6
    /\ ContentsOf(state.messages, "user") = <<Hi, Hi, Hi>>
    /\ state.messages[6] = AssistantMessage(ReadyResponse)
    /\ lastResult.shouldStructure = TRUE

(***************************************************************************)
(* Properties of the recognizer wrappers                                   *)
(***************************************************************************)
\* C29: after SpeechManager.stop() has been called, the recognizer is not
\* started again until the client calls start(): neither a pending
\* auto-restart timer scheduled by onend nor a start that had been requested
\* but not yet confirmed by onstart leaves the recognizer running after
\* stop().
C29_StoppedSpeechStaysStopped ==
    speech.asked = "stop" => speech.recognition # "running"

\* C30: after WakeWordDetector.stop() has been called, the wake callback is
\* not invoked and the recognizer is not restarted until start() is called
\* again, whatever result, end or error events and pending restart timers of
\* the stopped recognizer are delivered afterwards.
C30_StoppedDetectorStaysSilent ==
    /\ wake.woke # "stopped"
    /\ ~wake.listening
          => \A i \in 1..Len(wake.recs) : wake.recs[i] \notin {"starting", "running"}

(***************************************************************************)
(* app/page.tsx: the component's handlers.  A handler maps a world, the    *)
(* record of everything it can touch, to the world it leaves:              *)
(*   page    the component's own state (below)                             *)
(*   speech  speechRef.current, a SpeechManager                            *)
(*   wake    wakeWordRef.current, a WakeWordDetector                       *)
(*   conv    conversationRef.current, the state of one ConversationManager *)
(* page holds                                                              *)
(*   status, interimTranscript   the React state the handlers read         *)
(*   finalTranscript             finalTranscriptRef.current                *)
(*   silenceTimer                whether the timer of lines 192-197 is     *)
(*                               pending                                   *)
(*   tts            the utterances handed to speechSynthesis whose end or  *)
(*                  error event is still to come, oldest first, each with  *)
(*                  the onEnd callback it carries and whether cancel() hit *)
(*                  it                                                     *)
(*   wakeTimeouts   the pending setTimeout(() => startWakeWordListening()) *)
(*   runs           the runs of handleUserFinishedSpeaking that are at an  *)
(*                  await, in starting order.  at is the fetch awaited,    *)
(*                  added the messages the run appended so far, late those *)
(*                  of them it appended after a reset that came after its  *)
(*                  start, reset whether such a reset happened             *)
(*   finished       the run that returned last, kept for the properties    *)
(*   events         how many handlers have run since the mount             *)
(***************************************************************************)
MaxRuns == 2
MaxTranscript == 3
MaxEvents == 6

NoRun == [transcript |-> <<>>, path |-> "none"]

MountedPage ==
    [status |-> "idle", interimTranscript |-> <<>>, finalTranscript |-> <<>>,
     silenceTimer |-> FALSE, tts |-> <<>>, wakeTimeouts |-> 0, runs |-> <<>>,
     finished |-> NoRun, events |-> 0]

\* lines 106-113
Page_startWakeWordListening(w) ==
    [w EXCEPT !.page.status = "wake-listening", !.wake = WakeWordDetector_start(@)]

\* TTSManager.speak (lib/structurer.ts 255-274): cancel(), then a new
\* utterance whose onend and onerror both call onEnd
TTSManager_speak(tts, onEnd) ==
    Append([i \in 1..Len(tts) |-> [tts[i] EXCEPT !.cancelled = TRUE]],
           [onEnd |-> onEnd, cancelled |-> FALSE])

\* TTSManager.stop (lib/structurer.ts 276-278)
TTSManager_stop(tts) == [i \in 1..Len(tts) |-> [tts[i] EXCEPT !.cancelled = TRUE]]

\* lines 116-132
Page_handleWakeUp(w) ==
    [w EXCEPT !.conv = addAssistantMessage(@, getWelcomeMessage),
              !.page.status = "speaking",
              !.page.tts = TTSManager_speak(@, "startListening")]

\* lines 154-210, up to the callbacks it installs
Page_startListening(w) ==
    [w EXCEPT !.page.status = "listening",
              !.page.finalTranscript = <<>>,
              !.page.interimTranscript = <<>>,
              !.speech = SpeechManager_start(@)]

\* lines 213-243: handleUserFinishedSpeaking up to its first await
Page_handleUserFinishedSpeaking(w) ==
    LET stopped == [w EXCEPT !.speech = SpeechManager_stop(@),
                             !.page.interimTranscript = <<>>]
        transcript == Trim(w.page.finalTranscript)
    IN  IF transcript = <<>>
        THEN Page_startWakeWordListening(stopped)
        ELSE [stopped EXCEPT
                 !.page.status = "processing",
                 !.page.runs = Append(@, [transcript |-> transcript, at |-> "converse",
                                          added |-> <<>>, late |-> <<>>,
                                          reset |-> FALSE, result |-> NoResult])]

\* the stop words of line 167 that are written in ASCII
StopWords ==
    << <<"o", "v", "e", "r">>, <<"d", "o", "n", "e">>, <<"s", "t", "o", "p">>,
       <<"t", "h", "a", "t", "'", "s", " ", "i", "t">>,
       <<"t", "h", "a", "t", " ", "i", "s", " ", "i", "t">> >>

\* String.prototype.endsWith
EndsWith(text, part) ==
    /\ Len(part) <= Len(text)
    /\ SubSeq(text, Len(text) - Len(part) + 1, Len(text)) = part

\* cleanText.replace(new RegExp(`\\s*${sw}\\s*$`, "i"), "")
StripStopWord(text, sw) ==
    LET t == TrimEnd(text)
    IN  IF EndsWith(ToLowerCase(t), sw)
        THEN TrimEnd(SubSeq(t, 1, Len(t) - Len(sw)))
        ELSE text

\* the loop of lines 174-177, from the k-th stop word on
RECURSIVE StripStopWords(_, _)
StripStopWords(text, k) ==
    IF k > Len(StopWords) THEN text
    ELSE StripStopWords(StripStopWord(text, StopWords[k]), k + 1)

\* lines 162-203: the result callback startListening installs
Page_onResult(w, result) ==
    IF result.isFinal
    THEN LET text == Trim(result.transcript)
             lastWord == Trim(ToLowerCase(text))
             hasStopWord == \E k \in 1..Len(StopWords) : EndsWith(lastWord, StopWords[k])
             cleanText == StripStopWords(text, 1)
         IN  IF hasStopWord
             THEN Page_handleUserFinishedSpeaking(
                      [w EXCEPT !.page.finalTranscript =
                                    IF Trim(cleanText) # <<>>
                                    THEN @ \o cleanText \o <<" ">> ELSE @,
                                !.page.silenceTimer = FALSE])
             ELSE [w EXCEPT !.page.finalTranscript = @ \o result.transcript \o <<" ">>,
                            !.page.interimTranscript = <<>>,
                            !.page.silenceTimer = TRUE]
    ELSE [w EXCEPT !.page.interimTranscript = result.transcript]

\* lines 192-197: the silence timer fires
Page_onSilence(w) ==
    LET fired == [w EXCEPT !.page.silenceTimer = FALSE]
    IN  IF Trim(w.page.finalTranscript) # <<>>
        THEN Page_handleUserFinishedSpeaking(fired)
        ELSE fired

\* lines 356-382
Page_handleToggleVoice(w) ==
    IF w.page.status = "listening"
    THEN LET cleared == [w EXCEPT !.page.silenceTimer = FALSE]
             interim == w.page.interimTranscript
             taken == IF Trim(interim) # <<>>
                      THEN [cleared EXCEPT
                               !.page.finalTranscript = @ \o Trim(interim) \o <<" ">>,
                               !.page.interimTranscript = <<>>]
                      ELSE cleared
         IN  IF Trim(taken.page.finalTranscript) # <<>>
             THEN Page_handleUserFinishedSpeaking(taken)
             ELSE [taken EXCEPT !.speech = SpeechManager_stop(@),
                                !.page.status = "idle",
                                !.page.wakeTimeouts = @ + 1]
    ELSE IF w.page.status \in {"idle", "wake-listening"}
    THEN Page_handleWakeUp([w EXCEPT !.wake = WakeWordDetector_stop(@)])
    ELSE w

\* lines 417-428
Page_handleNewConversation(w) ==
    Page_startWakeWordListening(
        [w EXCEPT !.conv = reset(@),
                  !.page.interimTranscript = <<>>,
                  !.page.finalTranscript = <<>>,
                  !.speech = SpeechManager_stop(@),
                  !.page.tts = TTSManager_stop(@),
                  !.page.silenceTimer = FALSE,
                  !.page.runs = [i \in 1..Len(w.page.runs) |->
                                    [w.page.runs[i] EXCEPT !.reset = TRUE]]])

\* the callbacks handed to TTSManager.speak: lines 128-131, 309-311 and
\* 348-350, and lines 302-305 and 342-345
Page_onSpoken(w, onEnd) ==
    IF onEnd = "startListening"
    THEN Page_startListening(w)
    ELSE [w EXCEPT !.page.status = "idle", !.page.wakeTimeouts = @ + 1]
\* the messages a step appended to the session
Appended(before, after) ==
    SubSeq(after.messages, Len(before.messages) + 1, Len(after.messages))

\* run i, charged with what a step from session before to session after appended
Charged(run, before, after) ==
    [run EXCEPT !.added = @ \o Appended(before, after),
                !.late = IF run.reset THEN @ \o Appended(before, after) ELSE @]

RemoveAt(seq, i) == SubSeq(seq, 1, i - 1) \o SubSeq(seq, i + 1, Len(seq))

\* a run reaches the speak() that ends it (lines 300-311 and 340-350)
Page_Speak(w, i, run, conv, path) ==
    [w EXCEPT !.conv = conv,
              !.page.runs = RemoveAt(@, i),
              !.page.finished = [transcript |-> run.transcript, added |-> run.added,
                                 late |-> run.late, reply |-> run.result.response,
                                 path |-> path],
              !.page.status = "speaking",
              !.page.tts = TTSManager_speak(@, IF run.result.shouldStructure
                                               THEN "wakeLater" ELSE "startListening")]

\* lines 313-352: the catch branch, entered from the await the run was at
Page_catch(w, i) ==
    LET run == w.page.runs[i]
        structured == Structurer_structurePrompt(run.transcript, <<>>)
        out == processUserInput(w.conv, run.transcript, structured.intent)
    IN  Page_Speak(w, i, [Charged(run, w.conv, out.state) EXCEPT !.result = out.result],
                   out.state, "catch")

\* lines 243-312: run i resumes from the await of /api/converse.  outcome is
\* "fails" (fetch or json() rejects), "noData" (a body without data, as the
\* route's 400 and 500 bodies) or "data" with the body's data
Page_afterConverse(w, i, outcome) ==
    IF outcome.kind = "fails" THEN Page_catch(w, i)
    ELSE LET run == w.page.runs[i]
             c1 == addUserMessage(w.conv, run.transcript)
             out == IF outcome.kind = "data"
                    THEN [state |-> c1, result |-> outcome.data]
                    ELSE processUserInput(
                             c1, run.transcript,
                             Structurer_structurePrompt(run.transcript, <<>>).intent)
             c2 == addAssistantMessage(out.state, out.result.response)
             resumed == [Charged(run, w.conv, c2) EXCEPT !.result = out.result,
                                                        !.at = "structure"]
         IN  IF out.result.shouldStructure
             THEN [w EXCEPT !.conv = c2, !.page.runs[i] = resumed]
             ELSE Page_Speak(w, i, resumed, c2, outcome.kind)

\* lines 267-270: run i resumes from the await of /api/structure
Page_afterStructure(w, i, outcome) ==
    IF outcome.kind = "fails" THEN Page_catch(w, i)
    ELSE [w EXCEPT !.page.runs[i].at = "format"]

\* lines 280-311: run i resumes from the await of /api/format
Page_afterFormat(w, i, outcome) ==
    IF outcome.kind = "fails" THEN Page_catch(w, i)
    ELSE Page_Speak(w, i, w.page.runs[i], w.conv, "backend")

(***************************************************************************)
(* The mounted page: the user's clicks, the recognizers' and the           *)
(* synthesizer's events, the timers and the backend's replies, each        *)
(* running one handler to its return or to its next await.                 *)
(***************************************************************************)
World == [page |-> page, speech |-> speech, wake |-> wake, conv |-> state]

\* how far a session is followed
Within(w) ==
    /\ Len(w.conv.messages) <= MaxMessages
    /\ Len(w.page.runs) <= MaxRuns
    /\ Len(w.page.tts) <= MaxTimers
    /\ w.page.wakeTimeouts <= MaxTimers
    /\ Len(w.page.finalTranscript) <= MaxTranscript
    /\ Len(w.wake.recs) <= MaxRecognizers
    /\ w.wake.cooldownTimers <= MaxTimers

Leaves(w) ==
    /\ Within(w)
    /\ page.events < MaxEvents
    /\ page' = [w.page EXCEPT !.events = @ + 1]
    /\ speech' = w.speech
    /\ wake' = w.wake
    /\ state' = w.conv
    /\ UNCHANGED <<lastOp, lastResult, routeVars, engineVars>>

HiDone == Hi \o <<" ">> \o StopWords[2]

\* what the recognizer reports: a phrase, a phrase closed by a stop word, a
\* stop word alone
Heard == {Hi, HiDone, StopWords[2]}

ToggleVoice ==
    /\ page.status \in {"listening", "idle", "wake-listening"}
    /\ Leaves(Page_handleToggleVoice(World))

NewConversation == Leaves(Page_handleNewConversation(World))

\* SpeechManager's onresult hands each result to the installed callback
SpeechResult(transcript, isFinal) ==
    /\ speech.recognition \in {"running", "stopping"}
    /\ Leaves(Page_onResult(World, [transcript |-> transcript, isFinal |-> isFinal]))

SilenceTimeout ==
    /\ page.silenceTimer
    /\ Leaves(Page_onSilence(World))

\* the timers of lines 304, 345 and 375
WakeTimeout ==
    /\ page.wakeTimeouts > 0
    /\ Leaves(Page_startWakeWordListening([World EXCEPT !.page.wakeTimeouts = @ - 1]))

\* the oldest utterance ends, or errors as cancel() removes it
Spoken ==
    /\ page.tts # <<>>
    /\ Leaves(Page_onSpoken([World EXCEPT !.page.tts = Tail(@)], Head(page.tts).onEnd))

\* a cancelled utterance for which the browser delivers no event
Unspoken ==
    /\ page.tts # <<>>
    /\ Head(page.tts).cancelled
    /\ Leaves([World EXCEPT !.page.tts = Tail(@)])

\* wake recognizer i reports the wake phrase: the callback of lines 108-112
WakeWordHeard(i) ==
    /\ wake.recs[i] \in {"running", "stopping"}
    /\ LET heard == [World EXCEPT !.wake = WakeWordDetector_onresult(@, HeyListen, TRUE)]
       IN  Leaves(IF ~wake.cooldown THEN Page_handleWakeUp(heard) ELSE heard)

ReadyReply == [response |-> ReadyResponse, shouldStructure |-> TRUE]
AskReply ==
    [response |-> ConverseRoute_CLARIFYING_TEMPLATES["General"][1],
     shouldStructure |-> FALSE]

\* what the await of /api/converse can yield
ConverseReplies ==
    {[kind |-> "fails"], [kind |-> "noData"],
     [kind |-> "data", data |-> ReadyReply], [kind |-> "data", data |-> AskReply]}

\* what the awaits of /api/structure and /api/format can yield, as far as
\* the session is concerned
BackendReplies == {[kind |-> "fails"], [kind |-> "ok"]}

ConverseReplied(i, outcome) ==
    /\ page.runs[i].at = "converse"
    /\ Leaves(Page_afterConverse(World, i, outcome))

StructureReplied(i, outcome) ==
    /\ page.runs[i].at = "structure"
    /\ Leaves(Page_afterStructure(World, i, outcome))

FormatReplied(i, outcome) ==
    /\ page.runs[i].at = "format"
    /\ Leaves(Page_afterFormat(World, i, outcome))

\* lines 63-88: the mount effect has built the four managers and called
\* startWakeWordListening
PageInit ==
    /\ state = FreshState
    /\ lastOp = [name |-> "constructor", args |-> <<>>, wasComplete |-> FALSE]
    /\ lastResult = NoResult
    /\ RouteIdle
    /\ EngineIdle
    /\ results = NoResults
    /\ speech = SpeechManager_New
    /\ wake = WakeWordDetector_start(WakeWordDetector_New)
    /\ page = [MountedPage EXCEPT !.status = "wake-listening"]

PageNext ==
    \/ ToggleVoice
    \/ NewConversation
    \/ \E transcript \in Heard : SpeechResult(transcript, TRUE)
    \/ SpeechResult(Hi, FALSE)
    \/ SilenceTimeout
    \/ WakeTimeout
    \/ Spoken
    \/ Unspoken
    \/ Speech_onstart \/ Speech_onend \/ Speech_restart
    \/ Wake_restart \/ Wake_cooldownOver
    \/ \E i \in 1..Len(wake.recs) :
          \/ Wake_onstart(i) \/ Wake_onend(i) \/ Wake_onerror(i)
          \/ WakeWordHeard(i)
    \/ \E i \in 1..Len(page.runs) :
          \/ \E outcome \in ConverseReplies : ConverseReplied(i, outcome)
          \/ \E outcome \in BackendReplies :
                \/ StructureReplied(i, outcome)
                \/ FormatReplied(i, outcome)

PageSpec == PageInit /\ [][PageNext]_vars

(***************************************************************************)
(* C24: at most one run of handleUserFinishedSpeaking is in progress for   *)
(* the session at any moment: the silence timer, a detected stop word and  *)
(* the manual toggle cannot start a second run while an earlier run is     *)
(* still awaiting the backend.                                             *)
(***************************************************************************)
C24_AtMostOneRunInProgress == Len(page.runs) <= 1

(***************************************************************************)
(* C27: for each finished utterance handled by handleUserFinishedSpeaking  *)
(* the session gains exactly one user message carrying the transcript and  *)
(* exactly one assistant message carrying the reply, whichever path        *)
(* produced the reply: the backend's data, a backend response without      *)
(* data, or the catch branch after any of the three backend calls.         *)
(***************************************************************************)
C27_OneUserOneAssistantPerUtterance ==
    page.finished.path # "none" =>
        page.finished.added = <<UserMessage(page.finished.transcript),
                                AssistantMessage(page.finished.reply)>>

(***************************************************************************)
(* C28: after handleNewConversation has reset the session, no user or      *)
(* assistant message of a turn started before the reset is appended to the *)
(* new session, even when that turn's backend request is still in flight   *)
(* at the moment of the reset.                                             *)
(***************************************************************************)
C28_NothingOfAnEarlierTurnAfterReset ==
    /\ \A i \in 1..Len(page.runs) : page.runs[i].late = <<>>
    /\ page.finished.path # "none" => page.finished.late = <<>>

====
